---- MODULE Spec2Model ----
(***************************************************************************)
(* Verification model of the Vercel AI Gateway chat provider for VS Code:  *)
(* the chat turn (provideLanguageModelChatResponse), its tool handlers and *)
(* the message normalizer (convertMessages) of src/src/provider.ts.        *)
(***************************************************************************)
EXTENDS Integers, Sequences, FiniteSets, TLC

(***************************************************************************)
(* Bounds of the model.                                                    *)
(***************************************************************************)
\* upstream stream events consumed by one turn
MaxEvents == 2
\* invocations of a tool's execute handler in one turn
MaxToolCalls == 1
\* host messages in a chat history given to convertMessages
MaxMsgs == 2
\* content parts in one host message
MaxParts == 2
\* content parts in a whole chat history
MaxTotalParts == 3
\* sessions generated by the authentication provider
MaxSessions == 3
\* operations begun on the authentication provider
MaxAuthOps == 5

(***************************************************************************)
(* Values.                                                                 *)
(***************************************************************************)
\* The chat turns of the provider.  Spec runs turn "A" alone.
Turns == {"A", "B"}
SoloTurns == {"A"}

\* options.tools: the names of the tools the host declares for a turn.
ToolNames == {"search"}
\* the toolCallId the SDK supplies and the input the model passes to a tool
CallIds == {"c1", "c2"}
\* the call ids convertTools' handler makes up ('tool-call-' + time + random)
GeneratedIds == {"tool-call-1"}
ToolInvocations ==
    {[toolCallId |-> "c1", input |-> "in1"], [toolCallId |-> "c2", input |-> "in2"]}

\* A chunk of response.toUIMessageStream(): its type, delta and errorText.
Chunk(type, delta, errorText) ==
    [type |-> type, delta |-> delta, errorText |-> errorText]

Chunks ==
    {Chunk("text-delta", d, "") : d \in {"Hel", "lo", ""}}
    \cup {Chunk("reasoning-delta", d, "") : d \in {"hm", ""}}
    \cup {Chunk("error", "", e) : e \in {"boom", ""}}
    \cup {Chunk(ty, "", "") : ty \in {"start"}}

\* A thrown value: an Error instance (with its name), a string, an object
\* with a message property, or anything else.
Thrown(kind, name, text) == [kind |-> kind, name |-> name, text |-> text]

AbortError == Thrown("Error", "AbortError", "This operation was aborted")

ApiKeyNotFound == Thrown("Error", "Error", "Vercel AI Gateway API key not found")

Failures ==
    {Thrown("Error", "Error", "boom"),
     Thrown("string", "", "oops"),
     Thrown("object", "", "bad"),
     Thrown("other", "", "")}

\* What the stream raises: a failure of the transport, or the abort.
StreamFailures == {Thrown("Error", "Error", "boom"), AbortError}

isAbort(error) == error.kind = "Error" /\ error.name = "AbortError"

\* The response parts the host's progress channel accepts.
Part(kind, value, callId, name, input) ==
    [kind |-> kind, value |-> value, callId |-> callId, name |-> name, input |-> input]

LanguageModelTextPart(value) == Part("text", value, "", "", "")

LanguageModelThinkingPart(value) == Part("thinking", value, "", "", "")

LanguageModelToolCallPart(callId, name, input) == Part("toolcall", "", callId, name, input)

NoCancel == [pc |-> "none", events |-> 0, parts |-> 0]

VARIABLES
    pc,              \* where each turn is: idle, awaitKey, streaming, done
    cancelRequested, \* token.isCancellationRequested
    cancelledAt,     \* history: the turn's position when the host cancelled
    aborted,         \* abortController.signal.aborted
    subscription,    \* abortSubscription: none, live, disposed
    apiKey,          \* the turn's apiKey: unset, none (no access token), key
    thinkingCtor,    \* whether the host exposes LanguageModelThinkingPart
    adapter,         \* what builds a turn's tool set: the inline loop or convertTools
    tools,           \* options.tools of the turn
    toolMode,        \* options.toolMode: Auto, Required, or undefined
    modelTemperature, \* options.modelOptions?.temperature, or undefined
    credCalls,       \* calls of getApiKey made by the turn
    issued,          \* calls of streamText made by the turn
    consumed,        \* the chunks the for-await loop has received, in order
    reported,        \* the parts given to progress.report, in order
    origin,          \* history: what reported each part
    toolResults,     \* what the execute handlers returned to the SDK, in order
    caught,          \* history: the exceptions raised inside the turn
    outcome,         \* none, returned, threw
    streamCall,      \* the toolChoice and temperature given to streamText
    convPc,          \* the normalizer's run: off, input, normalized, renormalized
    convIn,          \* the host messages given to convertMessages
    convFlat,        \* the messages pushed for the parts, before the filtering pass
    convOut,         \* the messages convertMessages returned
    convAgain,       \* what convertMessages returned for its own output, given back
    tokPc,           \* the token counts asked for: off, input, first, second, third
    tokA,            \* the text of the first call of provideTokenCount, and of the third
    tokB,            \* the text of the second call
    countA,          \* what the first call returned (-1 before it)
    countB,          \* what the second call returned (-1 before it)
    countAgain,      \* what the third call returned (-1 before it)
    now,             \* Date.now(), in milliseconds
    ticks,           \* the number of times the clock has advanced
    modelsCache,     \* ModelsClient.modelsCache
    getModelsCalls,  \* each caller's call of getModels, with its history
    numCalls,        \* the number of calls of getModels made
    secrets,         \* context.secrets under SESSIONS_SECRET_KEY: the stored sessions
    activeSession,   \* context.globalState under ACTIVE_SESSION_KEY
    authCalls,       \* each caller's operation on the authentication provider
    sessionEvents,   \* what _sessionChangeEmitter fired, in order
    authLog          \* ids generated, operations begun, sessions created and removed

envVars == <<thinkingCtor, adapter, tools, toolMode, modelTemperature>>

turnVars == <<pc, cancelRequested, cancelledAt, aborted, subscription, apiKey,
              credCalls, issued, consumed, reported, origin, toolResults, caught,
              outcome, streamCall>>

convVars == <<convPc, convIn, convFlat, convOut, convAgain>>

tokVars == <<tokPc, tokA, tokB, countA, countB, countAgain>>

cacheVars == <<now, ticks, modelsCache, getModelsCalls, numCalls>>

authVars == <<secrets, activeSession, authCalls, sessionEvents, authLog>>

vars == <<envVars, authVars, turnVars, convVars, tokVars, cacheVars>>

(***************************************************************************)
(* The helpers of the chat turn.                                           *)
(***************************************************************************)
extractErrorMessage(error) ==
    IF error.kind = "Error" THEN error.text
    ELSE IF error.kind = "string" THEN error.text
    ELSE IF error.kind = "object" THEN error.text
    ELSE "An unexpected error occurred"

FormatError(errorMessage) == "\n\n**Error:** " \o errorMessage \o "\n\n"

\* Mutant: a text-delta chunk with an empty delta is skipped, as the
\* reasoning handler skips one.
handleTextDelta_SkipEmpty(chunk) ==
    IF chunk.delta # "" THEN <<LanguageModelTextPart(chunk.delta)>> ELSE <<>>

handleTextDelta(chunk) == <<LanguageModelTextPart(chunk.delta)>>

\* Mutant: the thinking part is built without probing for its constructor.
handleReasoningDelta_NoProbe(chunk, ctor) ==
    IF chunk.delta # "" THEN <<LanguageModelThinkingPart(chunk.delta)>> ELSE <<>>

handleReasoningDelta(chunk, ctor) ==
    IF ctor /\ chunk.delta # "" THEN <<LanguageModelThinkingPart(chunk.delta)>> ELSE <<>>

\* Mutant: the error text is used as it comes, with no default.
handleErrorChunk_NoDefault(chunk) ==
    <<LanguageModelTextPart(FormatError(chunk.errorText))>>

handleErrorChunk(chunk) ==
    LET errorMessage == IF chunk.errorText # "" THEN chunk.errorText
                        ELSE "Unknown error occurred"
    IN  <<LanguageModelTextPart(FormatError(errorMessage))>>

\* Mutant: a chunk of an unknown type is passed over in silence.
handleUnknownChunk_Silent(chunk) == <<>>

handleUnknownChunk(chunk) == <<LanguageModelTextPart(" ")>>

\* The switch of the for-await loop: the parts one chunk makes the turn report.
HandleChunk(chunk, ctor) ==
    CASE chunk.type = "text-delta" -> handleTextDelta(chunk)
      [] chunk.type = "reasoning-delta" -> handleReasoningDelta(chunk, ctor)
      [] chunk.type = "error" -> handleErrorChunk(chunk)
      [] OTHER -> handleUnknownChunk(chunk)

\* The catch block: the parts it reports for the exception it caught.
CatchBlock(error) == <<LanguageModelTextPart(FormatError(extractErrorMessage(error)))>>

\* Mutant: the finally block does not dispose the subscription.
FinallyBlock_Leak(sub) == sub

\* The finally block: what becomes of the cancellation subscription.
FinallyBlock(sub) == "disposed"

\* Mutant: the finally block aborts the controller as part of the cleanup.
FinallyAbort_Always(wasAborted) == TRUE

\* The finally block leaves the abort controller as it is: it disposes the
\* subscription and nothing else.
FinallyAbort(wasAborted) == wasAborted

\* Mutant: the try statement opens only at the for-await loop.
TryCovers_StreamOnly(site) == site = "stream"

\* The extent of the try statement: the places of the turn it covers.
TryCovers(site) == site \in {"credential", "construct", "stream"}

\* What an execute handler returns: status "" and input "" stand for a
\* result without that property.
ToolResult(toolCallId, name, input, status) ==
    [toolCallId |-> toolCallId, name |-> name, input |-> input, status |-> status]

\* Mutant: the handler returns its result without reporting the call.
ExecuteReport_None(toolCallId, name, input) == <<>>

\* The execute handler the turn's loop over options.tools generates: the
\* part it reports and the result it returns.
ExecuteReport(toolCallId, name, input) ==
    <<LanguageModelToolCallPart(toolCallId, name, input)>>

\* Mutant: the handler returns a call id of its own making.
ExecuteResult_OwnId(toolCallId, name, input) == ToolResult("tool-call-1", name, input, "")

ExecuteResult(toolCallId, name, input) == ToolResult(toolCallId, name, input, "")

\* The execute handler convertTools generates: it makes up its own call id.
ConvertToolsReport(callId, name, params) ==
    <<LanguageModelToolCallPart(callId, name, params)>>

ConvertToolsResult(callId, name, params) ==
    ToolResult(callId, name, "", "delegated_to_vscode")

Origins(src, ev, n) == [i \in 1..n |-> [src |-> src, ev |-> ev]]

\* The parameters of a call of streamText that depend on the host's options.
\* A temperature is the text of the number; "undefined" is the absent value.
StreamCall(toolChoice, temperature) ==
    [toolChoice |-> toolChoice, temperature |-> temperature]

NoStreamCall == StreamCall("", "")

\* LanguageModelChatToolMode, and the absent value.
ToolModes == {"Auto", "Required", "undefined"}

Temperatures == {"undefined", "0", "0.2", "1"}

\* options.toolMode === LanguageModelChatToolMode.Auto ? "auto" : "required"
ToolChoice(mode) == IF mode = "Auto" THEN "auto" ELSE "required"

\* options.modelOptions?.temperature ?? 0.7
Temperature(temperature) == IF temperature = "undefined" THEN "0.7" ELSE temperature

(***************************************************************************)
(* The message normalizer.  A string is the sequence of its characters.    *)
(***************************************************************************)
HostRoles == {"User", "Assistant", "System"}

\* A content part of a host message, or a part nested in a tool result:
\* a text part, a tool-call part, a tool-result part, or a part of another
\* class (a data part), which carries no value.
HostPart(kind, value, callId, name, input, content) ==
    [kind |-> kind, value |-> value, callId |-> callId, name |-> name,
     input |-> input, content |-> content]

TextPart(value) == HostPart("text", value, "", "", "", <<>>)

ToolCallPart(callId, name, input) == HostPart("toolcall", <<>>, callId, name, input, <<>>)

ToolResultPart(callId, content) == HostPart("toolresult", <<>>, callId, "", "", content)

DataPart == HostPart("data", <<>>, "", "", "", <<>>)

ChatMessage(role, content) == [role |-> role, content |-> content]

\* A ModelMessage: its content is a string (isString) or a sequence of blocks.
ModelMessage(role, isString, text, blocks) ==
    [role |-> role, isString |-> isString, text |-> text, blocks |-> blocks]

ToolCallBlock(toolName, toolCallId, input) ==
    [type |-> "tool-call", toolName |-> toolName, toolCallId |-> toolCallId,
     input |-> input, output |-> <<>>]

ToolResultBlock(toolCallId, toolName, value) ==
    [type |-> "tool-result", toolName |-> toolName, toolCallId |-> toolCallId,
     input |-> "", output |-> value]

Whitespace == {" ", "\n", "\t"}

RECURSIVE TrimStart(_)
TrimStart(s) ==
    IF s # <<>> /\ Head(s) \in Whitespace THEN TrimStart(Tail(s)) ELSE s

RECURSIVE TrimEnd(_)
TrimEnd(s) ==
    IF s # <<>> /\ s[Len(s)] \in Whitespace THEN TrimEnd(SubSeq(s, 1, Len(s) - 1)) ELSE s

\* String.prototype.trim
Trim(s) == TrimEnd(TrimStart(s))

\* Mutant: the texts are concatenated with nothing between them.
RECURSIVE Join_NoSeparator(_, _)
Join_NoSeparator(texts, sep) ==
    IF texts = <<>> THEN <<>>
    ELSE texts[1] \o Join_NoSeparator(Tail(texts), sep)

\* Array.prototype.join
RECURSIVE Join(_, _)
Join(texts, sep) ==
    IF texts = <<>> THEN <<>>
    ELSE IF Len(texts) = 1 THEN texts[1]
    ELSE texts[1] \o sep \o Join(Tail(texts), sep)

isTextPart(part) == part.kind = "text"

\* The values of the nested parts that carry one.
RECURSIVE extractToolResultTexts(_)
extractToolResultTexts(content) ==
    IF content = <<>> THEN <<>>
    ELSE (IF Head(content).kind = "text" THEN <<Head(content).value>> ELSE <<>>)
         \o extractToolResultTexts(Tail(content))

\* tools[part.callId] || "unknown": the record of call ids is a function
\* that gives "" for a call id it does not hold.
NoTools == [c \in CallIds |-> ""]

LookupTool(toolsById, callId) ==
    IF toolsById[callId] # "" THEN toolsById[callId] ELSE "unknown"

\* The loop over msg.content: the messages pushed for the parts from i on,
\* with the call ids recorded so far in this message.
RECURSIVE ConvertParts(_, _, _, _)
ConvertParts(content, i, role, toolsById) ==
    IF i > Len(content) THEN <<>>
    ELSE LET part == content[i] IN
         IF isTextPart(part)
         THEN <<ModelMessage(role, TRUE, part.value, <<>>)>>
              \o ConvertParts(content, i + 1, role, toolsById)
         ELSE IF part.kind = "toolcall"
         THEN <<ModelMessage("assistant", FALSE, <<>>,
                             <<ToolCallBlock(part.name, part.callId, part.input)>>)>>
              \o ConvertParts(content, i + 1, role,
                              [toolsById EXCEPT ![part.callId] = part.name])
         ELSE IF part.kind = "toolresult"
         THEN LET resultTexts == extractToolResultTexts(part.content) IN
              (IF Len(resultTexts) > 0
               THEN <<ModelMessage("tool", FALSE, <<>>,
                                   <<ToolResultBlock(part.callId,
                                                     LookupTool(toolsById, part.callId),
                                                     Join(resultTexts, <<" ">>))>>)>>
               ELSE <<>>)
              \o ConvertParts(content, i + 1, role, toolsById)
         ELSE ConvertParts(content, i + 1, role, toolsById)

\* Mutant: a message with nothing to push pushes nothing.
convertSingleMessage_NoPlaceholder(msg) ==
    ConvertParts(msg.content, 1, IF msg.role = "User" THEN "user" ELSE "assistant", NoTools)

convertSingleMessage(msg) ==
    LET role == IF msg.role = "User" THEN "user" ELSE "assistant"
        results == ConvertParts(msg.content, 1, role, NoTools)
    IN  IF Len(results) = 0 THEN <<ModelMessage(role, TRUE, <<>>, <<>>)>> ELSE results

\* Mutant: a string content is kept when it is not empty, untrimmed.
isValidMessage_NoTrim(msg) ==
    IF msg.isString THEN Len(msg.text) > 0 ELSE Len(msg.blocks) > 0

isValidMessage(msg) ==
    IF msg.isString THEN Len(Trim(msg.text)) > 0 ELSE Len(msg.blocks) > 0

RECURSIVE FlatMap(_)
FlatMap(messages) ==
    IF messages = <<>> THEN <<>>
    ELSE convertSingleMessage(Head(messages)) \o FlatMap(Tail(messages))

\* Array.prototype.findIndex for role 'user', counting from 0: -1 if none.
FirstUserIndex(result) ==
    IF \E i \in 1..Len(result) : result[i].role = "user"
    THEN (CHOOSE i \in 1..Len(result) :
             /\ result[i].role = "user"
             /\ \A j \in 1..(i - 1) : result[j].role # "user") - 1
    ELSE -1

fixSystemMessages(result) ==
    LET firstUserIndex == FirstUserIndex(result) IN
    [k \in 1..Len(result) |->
        IF (k - 1) < firstUserIndex /\ result[k].role = "assistant"
        THEN [result[k] EXCEPT !.role = "system"]
        ELSE result[k]]

convertMessages(messages) ==
    fixSystemMessages(SelectSeq(FlatMap(messages), isValidMessage))

\* The chat histories the normalizer is run on.
HostParts ==
    {TextPart(<<"a">>),
     TextPart(<<" ">>),
     ToolCallPart("c1", "search", "in1"),
     ToolResultPart("c1", <<TextPart(<<"a">>), TextPart(<<"b">>)>>),
     ToolResultPart("c2", <<TextPart(<<>>)>>),
     ToolResultPart("c1", <<DataPart>>)}

RECURSIVE TotalParts(_)
TotalParts(messages) ==
    IF messages = <<>> THEN 0
    ELSE Len(Head(messages).content) + TotalParts(Tail(messages))

(***************************************************************************)
(* The token estimate.  A string is the sequence of its characters; the    *)
(* text given to provideTokenCount is a string or a chat message.          *)
(***************************************************************************)
MaxTextLen == 4

MaxTokParts == 2

\* Math.ceil(n / d) for n >= 0 and d > 0.
MathCeilDiv(n, d) == IF n % d = 0 THEN n \div d ELSE (n \div d) + 1

\* Mutant: the quotient is rounded down.
estimateTokenCount_Floor(text) == Len(text) \div 4

estimateTokenCount(text) == MathCeilDiv(Len(text), 4)

StringText(text) == [isString |-> TRUE, text |-> text, content |-> <<>>]

MessageText(content) == [isString |-> FALSE, text |-> <<>>, content |-> content]

\* Mutant: each text part overwrites totalTokens instead of adding to it.
RECURSIVE TotalTokens_Overwrite(_, _, _)
TotalTokens_Overwrite(content, i, total) ==
    IF i > Len(content) THEN total
    ELSE TotalTokens_Overwrite(content, i + 1,
                               IF isTextPart(content[i])
                               THEN estimateTokenCount(content[i].value)
                               ELSE total)

\* The loop over text.content: totalTokens after the parts from i on, from
\* the value total.
RECURSIVE TotalTokens(_, _, _)
TotalTokens(content, i, total) ==
    IF i > Len(content) THEN total
    ELSE TotalTokens(content, i + 1,
                     IF isTextPart(content[i])
                     THEN total + estimateTokenCount(content[i].value)
                     ELSE total)

provideTokenCount(text) ==
    IF text.isString THEN estimateTokenCount(text.text)
    ELSE TotalTokens(text.content, 1, 0)

\* The texts provideTokenCount is asked about.
Str(n) == [i \in 1..n |-> "x"]

TokParts ==
    {TextPart(Str(n)) : n \in 0..MaxTextLen}
    \cup {ToolCallPart("c1", "search", "in1"),
          ToolResultPart("c1", <<TextPart(Str(2))>>)}

SeqsUpTo(S, n) == UNION {[1..k -> S] : k \in 0..n}

TokTexts ==
    {StringText(Str(n)) : n \in 0..MaxTextLen}
    \cup {MessageText(content) : content \in SeqsUpTo(TokParts, MaxTokParts)}

TokOff ==
    /\ tokPc = "off"
    /\ tokA = StringText(<<>>)
    /\ tokB = StringText(<<>>)
    /\ countA = -1
    /\ countB = -1
    /\ countAgain = -1

(***************************************************************************)
(* The model catalog client (ModelsClient).                                *)
(***************************************************************************)
MaxTicks == 3

MaxCalls == 3

MODELS_CACHE_TTL_MS == 5 * 60 * 1000

\* The callers of getModels, whose calls may overlap.
Callers == {"p", "q"}

\* A Model of the gateway's response, with the fields the client reads.
Model(id, owned_by, description, context_window, max_tokens) ==
    [id |-> id, name |-> id, owned_by |-> owned_by, description |-> description,
     context_window |-> context_window, max_tokens |-> max_tokens]

\* The bodies the gateway answers with.
Catalogs ==
    {<<Model("gpt", "openai", "", 8, 4)>>,
     <<Model("gpt", "openai", "", 8, 4),
       Model("pix", "acme", "Image input", 16, 2)>>}

\* model.description?.toLowerCase().includes('image')
MentionsImage(description) == description \in {"Image input"}

transformToVSCodeModels(data) ==
    [i \in 1..Len(data) |->
        [id |-> data[i].id,
         name |-> data[i].name,
         family |-> data[i].owned_by,
         version |-> "1.0",
         maxInputTokens |-> data[i].context_window,
         maxOutputTokens |-> data[i].max_tokens,
         tooltip |-> IF data[i].description # "" THEN data[i].description
                     ELSE "No description available.",
         imageInput |-> MentionsImage(data[i].description),
         toolCalling |-> TRUE]]

\* modelsCache?: ModelsCache: absent, or a fetch time and a list.
NoCache == [present |-> FALSE, fetchedAt |-> 0, models |-> <<>>]

ModelsCache(fetchedAt, models) ==
    [present |-> TRUE, fetchedAt |-> fetchedAt, models |-> models]

\* Mutant: the cache entry is stamped with the time the call started.
CacheWrite_StartTime(startedAt, dateNow, models) == ModelsCache(startedAt, models)

\* this.modelsCache = { fetchedAt: Date.now(), models }: the entry a call
\* writes once its fetch has answered, stamped with the time of the write.
CacheWrite(startedAt, dateNow, models) == ModelsCache(dateNow, models)

\* Mutant: a cache exactly as old as the time to live is still fresh.
isModelsCacheFresh_Inclusive(cache, dateNow) ==
    cache.present /\ (dateNow - cache.fetchedAt) <= MODELS_CACHE_TTL_MS

isModelsCacheFresh(cache, dateNow) ==
    cache.present /\ (dateNow - cache.fetchedAt) < MODELS_CACHE_TTL_MS

\* A caller's call of getModels: where it is (idle, fetching, returned,
\* threw), and as history the time and the cache at the call, the fetches it
\* started, what it returned, and the time and the cache when it ended.
\* When provideLanguageModelChatInformation makes the call: where that is
\* (awaitKey, getModels, returned; none for a bare getModels), what getApiKey
\* resolved with and what it returned to the host.
NoCall ==
    [pc |-> "idle", startedAt |-> 0, cacheAtStart |-> NoCache, fetches |-> 0,
     result |-> <<>>, endedAt |-> 0, cacheAtEnd |-> NoCache,
     info |-> "none", apiKey |-> "unset", infoResult |-> <<>>]

\* Mutant: when getModels throws, the provider serves the list of the cache.
InformationCatch_Stale(cache) == cache.models

\* catch (error) { console.error(...); return []; }
InformationCatch(cache) == <<>>

\* The steps by which the clock advances.
ClockSteps == {1, MODELS_CACHE_TTL_MS - 1}

CacheOff ==
    /\ now = 0
    /\ ticks = 0
    /\ modelsCache = NoCache
    /\ getModelsCalls = [c \in Callers |-> NoCall]
    /\ numCalls = 0

(***************************************************************************)
(* The authentication provider's session store.                            *)
(***************************************************************************)
\* The callers of the provider's operations, whose calls may overlap.
AuthCallers == {"p", "q"}

\* generateSessionId: ids are numbered in the order they are generated.
SessionIds == 1..MaxSessions

\* globalState.get(ACTIVE_SESSION_KEY, null): no active session.
NullId == 0

\* A caller's operation: where it is, the session it creates or the id it
\* was given, the list getSessions returned to it and the active id it read.
NoAuthCall == [pc |-> "idle", session |-> NullId, local |-> <<>>, active |-> NullId]

Ids(sessions) == {sessions[i] : i \in 1..Len(sessions)}

\* sessions.splice(index, 1) at the index findIndex gave for the id.
Splice(sessions, sessionId) ==
    LET index == CHOOSE i \in 1..Len(sessions) :
                     /\ sessions[i] = sessionId
                     /\ \A j \in 1..(i - 1) : sessions[j] # sessionId
    IN SubSeq(sessions, 1, index - 1) \o SubSeq(sessions, index + 1, Len(sessions))

\* Mutant: removing the active session leaves the active id as it is.
NewActiveSession_Stale(sessions, sessionId) == sessionId

\* sessions.length > 0 ? sessions[0].id : null, for the list after the
\* splice.
NewActiveSession(sessions, sessionId) ==
    IF Len(sessions) > 0 THEN sessions[1] ELSE NullId

\* getActiveSession: the stored session with the active id, or the first
\* one; null when nothing is stored.
getActiveSession(sessions, activeSessionId) ==
    IF Len(sessions) = 0 THEN NullId
    ELSE IF activeSessionId # NullId /\ activeSessionId \in Ids(sessions)
         THEN activeSessionId
         ELSE sessions[1]

\* An event of onDidChangeSessions, with the store as it was when fired.
SessionEvent(kind, id, stored) == [kind |-> kind, id |-> id, stored |-> id \in Ids(stored)]

AuthOff ==
    /\ secrets = <<>>
    /\ activeSession = NullId
    /\ authCalls = [c \in AuthCallers |-> NoAuthCall]
    /\ sessionEvents = <<>>
    /\ authLog = [made |-> 0, ops |-> 0, created |-> {}, removed |-> {}]

(***************************************************************************)
(* The chat turn.                                                          *)
(***************************************************************************)
TurnInit ==
    /\ pc = [t \in Turns |-> "idle"]
    /\ cancelRequested = [t \in Turns |-> FALSE]
    /\ cancelledAt = [t \in Turns |-> NoCancel]
    /\ aborted = [t \in Turns |-> FALSE]
    /\ subscription = [t \in Turns |-> "none"]
    /\ apiKey = [t \in Turns |-> "unset"]
    /\ credCalls = [t \in Turns |-> 0]
    /\ issued = [t \in Turns |-> 0]
    /\ consumed = [t \in Turns |-> <<>>]
    /\ reported = [t \in Turns |-> <<>>]
    /\ origin = [t \in Turns |-> <<>>]
    /\ toolResults = [t \in Turns |-> <<>>]
    /\ caught = [t \in Turns |-> <<>>]
    /\ outcome = [t \in Turns |-> "none"]
    /\ streamCall = [t \in Turns |-> NoStreamCall]

Init ==
    /\ TurnInit
    /\ thinkingCtor \in BOOLEAN
    /\ tools \in [Turns -> {{}, ToolNames}]
    /\ \A t \in Turns \ SoloTurns : tools[t] = {}
    /\ adapter \in {"inline", "convertTools"}
    /\ (\A t \in Turns : tools[t] = {}) => adapter = "inline"
    /\ toolMode = "Auto"
    /\ modelTemperature = "undefined"
    /\ convPc = "off"
    /\ convIn = <<>>
    /\ convFlat = <<>>
    /\ convOut = <<>>
    /\ convAgain = <<>>
    /\ TokOff
    /\ CacheOff
    /\ AuthOff

\* The host calls provideLanguageModelChatResponse: the abort controller and
\* the subscription are created and the turn suspends in getApiKey.
Start(t) ==
    /\ pc[t] = "idle"
    /\ pc' = [pc EXCEPT ![t] = "awaitKey"]
    /\ subscription' = [subscription EXCEPT ![t] = "live"]
    /\ credCalls' = [credCalls EXCEPT ![t] = @ + 1]
    /\ UNCHANGED <<envVars, authVars, convVars, tokVars, cacheVars, streamCall, cancelRequested, cancelledAt, aborted, apiKey, issued, consumed,
                   reported, origin, toolResults, caught, outcome>>

\* Mutant: the abort controller is one for the provider, shared by its turns.
AbortTargets_Shared(t) == Turns

\* The turns whose upstream call the abort controller created in turn t
\* aborts: the controller is local to the call.
AbortTargets(t) == {t}

\* The host requests cancellation of a turn in progress: the listener aborts
\* the controller while the subscription is live.
Cancel(t) ==
    /\ pc[t] \in {"awaitKey", "streaming"}
    /\ ~cancelRequested[t]
    /\ cancelRequested' = [cancelRequested EXCEPT ![t] = TRUE]
    /\ cancelledAt' = [cancelledAt EXCEPT ![t] =
                         [pc |-> pc[t], events |-> Len(consumed[t]),
                          parts |-> Len(reported[t])]]
    /\ aborted' = [u \in Turns |->
                      IF u \in AbortTargets(t) /\ subscription[t] = "live"
                      THEN TRUE ELSE aborted[u]]
    /\ UNCHANGED <<envVars, authVars, convVars, tokVars, cacheVars, streamCall, pc, subscription, apiKey, credCalls, issued, consumed, reported,
                   origin, toolResults, caught, outcome>>

\* Mutant: the catch block takes back what the turn had reported and leaves
\* the error text alone on the channel.
Throw_Rollback(t, site, error) ==
    /\ caught' = [caught EXCEPT ![t] = Append(@, error)]
    /\ pc' = [pc EXCEPT ![t] = "done"]
    /\ reported' = [reported EXCEPT ![t] = CatchBlock(error)]
    /\ origin' = [origin EXCEPT ![t] =
                    Origins("catch", Len(consumed[t]), Len(CatchBlock(error)))]
    /\ aborted' = [aborted EXCEPT ![t] = FinallyAbort(@)]
    /\ subscription' = [subscription EXCEPT ![t] = FinallyBlock(@)]
    /\ outcome' = [outcome EXCEPT ![t] = "returned"]

\* An exception raised at a place of the turn: inside the try statement the
\* catch block reports it and the finally block runs; outside, it leaves the
\* call.
Throw(t, site, error) ==
    /\ caught' = [caught EXCEPT ![t] = Append(@, error)]
    /\ pc' = [pc EXCEPT ![t] = "done"]
    /\ IF TryCovers(site)
       THEN /\ reported' = [reported EXCEPT ![t] = @ \o CatchBlock(error)]
            /\ origin' = [origin EXCEPT ![t] =
                            @ \o Origins("catch", Len(consumed[t]), Len(CatchBlock(error)))]
            /\ aborted' = [aborted EXCEPT ![t] = FinallyAbort(@)]
            /\ subscription' = [subscription EXCEPT ![t] = FinallyBlock(@)]
            /\ outcome' = [outcome EXCEPT ![t] = "returned"]
       ELSE /\ outcome' = [outcome EXCEPT ![t] = "threw"]
            /\ UNCHANGED <<reported, origin, subscription, aborted>>

\* Mutant: without an access token the turn returns at once, reporting
\* nothing.
ResumeNoKey_Silent(t) ==
    /\ pc[t] = "awaitKey"
    /\ apiKey' = [apiKey EXCEPT ![t] = "none"]
    /\ pc' = [pc EXCEPT ![t] = "done"]
    /\ subscription' = [subscription EXCEPT ![t] = "disposed"]
    /\ outcome' = [outcome EXCEPT ![t] = "returned"]
    /\ UNCHANGED <<envVars, authVars, convVars, tokVars, cacheVars, streamCall, cancelRequested, cancelledAt, aborted, credCalls,
                   issued, consumed, reported, origin, toolResults, caught>>

\* getApiKey resolves with no access token: the turn throws the
\* key-not-found error.
ResumeNoKey(t) ==
    /\ pc[t] = "awaitKey"
    /\ apiKey' = [apiKey EXCEPT ![t] = "none"]
    /\ Throw(t, "credential", ApiKeyNotFound)
    /\ UNCHANGED <<envVars, authVars, convVars, tokVars, cacheVars, streamCall, cancelRequested, cancelledAt, credCalls, issued, consumed,
                   toolResults>>

\* getApiKey resolves with a token and building the gateway, the tool set,
\* the messages or the call throws.
ResumeConstructFail(t, error) ==
    /\ pc[t] = "awaitKey"
    /\ apiKey' = [apiKey EXCEPT ![t] = "key"]
    /\ Throw(t, "construct", error)
    /\ UNCHANGED <<envVars, authVars, convVars, tokVars, cacheVars, streamCall, cancelRequested, cancelledAt, credCalls, issued, consumed,
                   toolResults>>

\* getApiKey resolves with a token: streamText is issued and the turn
\* suspends on the first chunk.
ResumeIssue(t) ==
    /\ pc[t] = "awaitKey"
    /\ apiKey' = [apiKey EXCEPT ![t] = "key"]
    /\ pc' = [pc EXCEPT ![t] = "streaming"]
    /\ issued' = [issued EXCEPT ![t] = @ + 1]
    /\ streamCall' = [streamCall EXCEPT ![t] =
                        StreamCall(ToolChoice(toolMode), Temperature(modelTemperature))]
    /\ UNCHANGED <<envVars, authVars, convVars, tokVars, cacheVars, cancelRequested, cancelledAt, aborted,
                   subscription, credCalls, consumed, reported, origin, toolResults, caught,
                   outcome>>

\* The next chunk of the stream arrives and the switch handles it.
StreamChunk(t, chunk) ==
    /\ pc[t] = "streaming"
    /\ Len(consumed[t]) < MaxEvents
    /\ consumed' = [consumed EXCEPT ![t] = Append(@, chunk)]
    /\ reported' = [reported EXCEPT ![t] = @ \o HandleChunk(chunk, thinkingCtor)]
    /\ origin' = [origin EXCEPT ![t] =
                    @ \o Origins("chunk", Len(consumed[t]) + 1,
                                 Len(HandleChunk(chunk, thinkingCtor)))]
    /\ UNCHANGED <<envVars, authVars, convVars, tokVars, cacheVars, streamCall, pc, cancelRequested, cancelledAt, aborted, subscription, apiKey,
                   credCalls, issued, toolResults, caught, outcome>>

\* The stream ends: the loop is left and the finally block runs.
StreamEnd(t) ==
    /\ pc[t] = "streaming"
    /\ pc' = [pc EXCEPT ![t] = "done"]
    /\ aborted' = [aborted EXCEPT ![t] = FinallyAbort(@)]
    /\ subscription' = [subscription EXCEPT ![t] = FinallyBlock(@)]
    /\ outcome' = [outcome EXCEPT ![t] = "returned"]
    /\ UNCHANGED <<envVars, authVars, convVars, tokVars, cacheVars, streamCall, cancelRequested, cancelledAt, apiKey, credCalls, issued,
                   consumed, reported, origin, toolResults, caught>>

\* Mutant: when the stream raises, the turn issues the upstream call again
\* and goes on streaming.
StreamThrow_Retry(t, error) ==
    /\ pc[t] = "streaming"
    /\ isAbort(error) => aborted[t]
    /\ issued[t] < 2
    /\ issued' = [issued EXCEPT ![t] = @ + 1]
    /\ caught' = [caught EXCEPT ![t] = Append(@, error)]
    /\ UNCHANGED <<envVars, authVars, convVars, tokVars, cacheVars, streamCall, pc, cancelRequested, cancelledAt, aborted, subscription,
                   apiKey, credCalls, consumed, reported, origin, toolResults, outcome>>

\* The stream raises: an abort exception only once the controller is aborted.
StreamThrow(t, error) ==
    /\ pc[t] = "streaming"
    /\ isAbort(error) => aborted[t]
    /\ Throw(t, "stream", error)
    /\ UNCHANGED <<envVars, authVars, convVars, tokVars, cacheVars, streamCall, cancelRequested, cancelledAt, apiKey, credCalls, issued,
                   consumed, toolResults>>

\* A handler ran: its parts are on the channel and its result is with the
\* SDK, recorded with the call the SDK made and the number of parts on the
\* channel when the result was returned.
Executed(t, toolCallId, name, input, parts, result) ==
    /\ reported' = [reported EXCEPT ![t] = @ \o parts]
    /\ origin' = [origin EXCEPT ![t] =
                    @ \o Origins("tool", Len(toolResults[t]) + 1, Len(parts))]
    /\ toolResults' = [toolResults EXCEPT ![t] =
                         Append(@, [result |-> result,
                                    call |-> [toolCallId |-> toolCallId, name |-> name,
                                              input |-> input],
                                    reportedBefore |-> Len(reported[t]) + Len(parts)])]
    /\ UNCHANGED <<envVars, authVars, convVars, tokVars, cacheVars, streamCall, pc, cancelRequested, cancelledAt, aborted, subscription, apiKey,
                   credCalls, issued, consumed, caught, outcome>>

\* The SDK invokes the execute handler the turn generated for a declared tool.
ToolExecute(t, name, input, toolCallId) ==
    /\ pc[t] = "streaming"
    /\ adapter = "inline"
    /\ name \in tools[t]
    /\ Len(toolResults[t]) < MaxToolCalls
    /\ Executed(t, toolCallId, name, input,
                ExecuteReport(toolCallId, name, input),
                ExecuteResult(toolCallId, name, input))

\* The SDK invokes the execute handler convertTools generated for a declared
\* tool; the handler makes up the call id.
ConvertToolsExecute(t, name, params, toolCallId, callId) ==
    /\ pc[t] = "streaming"
    /\ adapter = "convertTools"
    /\ name \in tools[t]
    /\ Len(toolResults[t]) < MaxToolCalls
    /\ Executed(t, toolCallId, name, params,
                ConvertToolsReport(callId, name, params),
                ConvertToolsResult(callId, name, params))

Next ==
    \E t \in SoloTurns :
    \/ Start(t)
    \/ Cancel(t)
    \/ ResumeNoKey(t)
    \/ \E error \in Failures : ResumeConstructFail(t, error)
    \/ ResumeIssue(t)
    \/ \E chunk \in Chunks : StreamChunk(t, chunk)
    \/ StreamEnd(t)
    \/ \E error \in StreamFailures : StreamThrow(t, error)
    \/ \E name \in ToolNames, inv \in ToolInvocations :
          ToolExecute(t, name, inv.input, inv.toolCallId)
    \/ \E name \in ToolNames, inv \in ToolInvocations, callId \in GeneratedIds :
          ConvertToolsExecute(t, name, inv.input, inv.toolCallId, callId)

Spec == Init /\ [][Next]_vars

(***************************************************************************)
(* The normalizer run on its own: a chat history is normalized, and the    *)
(* output is given back as a chat history and normalized again.            *)
(***************************************************************************)
\* An output message given back as a host message: a string as a text part,
\* a tool-call or tool-result block as the part of that class, under the
\* host role of the message's role (a tool message under User).
RepresentBlock(block) ==
    IF block.type = "tool-call"
    THEN ToolCallPart(block.toolCallId, block.toolName, block.input)
    ELSE ToolResultPart(block.toolCallId, <<TextPart(block.output)>>)

RepresentMessage(msg) ==
    ChatMessage(CASE msg.role = "user" -> "User"
                  [] msg.role = "assistant" -> "Assistant"
                  [] msg.role = "system" -> "System"
                  [] OTHER -> "User",
                IF msg.isString THEN <<TextPart(msg.text)>>
                ELSE [i \in 1..Len(msg.blocks) |-> RepresentBlock(msg.blocks[i])])

Represent(result) == [i \in 1..Len(result) |-> RepresentMessage(result[i])]

ConvInit ==
    /\ TurnInit
    /\ thinkingCtor = TRUE
    /\ tools = [t \in Turns |-> {}]
    /\ adapter = "inline"
    /\ toolMode = "Auto"
    /\ modelTemperature = "undefined"
    /\ convPc = "input"
    /\ convIn = <<>>
    /\ convFlat = <<>>
    /\ convOut = <<>>
    /\ convAgain = <<>>
    /\ TokOff
    /\ CacheOff
    /\ AuthOff

\* The host adds a message to the chat history.
AddMessage(role) ==
    /\ convPc = "input"
    /\ Len(convIn) < MaxMsgs
    /\ convIn' = Append(convIn, ChatMessage(role, <<>>))
    /\ UNCHANGED <<convPc, convFlat, convOut, convAgain, envVars, authVars, turnVars, tokVars, cacheVars>>

\* The host adds a content part to the last message of the chat history.
AddPart(part) ==
    /\ convPc = "input"
    /\ convIn # <<>>
    /\ Len(convIn[Len(convIn)].content) < MaxParts
    /\ TotalParts(convIn) < MaxTotalParts
    /\ convIn' = [convIn EXCEPT ![Len(convIn)].content = Append(@, part)]
    /\ UNCHANGED <<convPc, convFlat, convOut, convAgain, envVars, authVars, turnVars, tokVars, cacheVars>>

Normalize ==
    /\ convPc = "input"
    /\ convPc' = "normalized"
    /\ convFlat' = FlatMap(convIn)
    /\ convOut' = convertMessages(convIn)
    /\ UNCHANGED <<convIn, convAgain, envVars, authVars, turnVars, tokVars, cacheVars>>

Renormalize ==
    /\ convPc = "normalized"
    /\ convPc' = "renormalized"
    /\ convAgain' = convertMessages(Represent(convOut))
    /\ UNCHANGED <<convIn, convFlat, convOut, envVars, authVars, turnVars, tokVars, cacheVars>>

ConvNext ==
    \/ \E role \in HostRoles : AddMessage(role)
    \/ \E part \in HostParts : AddPart(part)
    \/ Normalize
    \/ Renormalize

SpecConv == ConvInit /\ [][ConvNext]_vars

(***************************************************************************)
(* The token estimate on its own: the host asks for the count of a text,   *)
(* then of another text, then of the first again.                          *)
(***************************************************************************)
TokInit ==
    /\ TurnInit
    /\ thinkingCtor = TRUE
    /\ tools = [t \in Turns |-> {}]
    /\ adapter = "inline"
    /\ toolMode = "Auto"
    /\ modelTemperature = "undefined"
    /\ convPc = "off"
    /\ convIn = <<>>
    /\ convFlat = <<>>
    /\ convOut = <<>>
    /\ convAgain = <<>>
    /\ tokPc = "input"
    /\ tokA \in TokTexts
    /\ tokB \in TokTexts
    /\ countA = -1
    /\ countB = -1
    /\ countAgain = -1
    /\ CacheOff
    /\ AuthOff

CountFirst ==
    /\ tokPc = "input"
    /\ tokPc' = "first"
    /\ countA' = provideTokenCount(tokA)
    /\ UNCHANGED <<tokA, tokB, countB, countAgain, envVars, authVars, turnVars, convVars, cacheVars>>

CountSecond ==
    /\ tokPc = "first"
    /\ tokPc' = "second"
    /\ countB' = provideTokenCount(tokB)
    /\ UNCHANGED <<tokA, tokB, countA, countAgain, envVars, authVars, turnVars, convVars, cacheVars>>

CountFirstAgain ==
    /\ tokPc = "second"
    /\ tokPc' = "third"
    /\ countAgain' = provideTokenCount(tokA)
    /\ UNCHANGED <<tokA, tokB, countA, countB, envVars, authVars, turnVars, convVars, cacheVars>>

TokNext ==
    \/ CountFirst
    \/ CountSecond
    \/ CountFirstAgain

SpecTok == TokInit /\ [][TokNext]_vars

(***************************************************************************)
(* The model catalog client on its own: callers call getModels while the   *)
(* clock advances and the gateway answers or fails.                        *)
(***************************************************************************)
ModelsInit ==
    /\ TurnInit
    /\ thinkingCtor = TRUE
    /\ tools = [t \in Turns |-> {}]
    /\ adapter = "inline"
    /\ toolMode = "Auto"
    /\ modelTemperature = "undefined"
    /\ convPc = "off"
    /\ convIn = <<>>
    /\ convFlat = <<>>
    /\ convOut = <<>>
    /\ convAgain = <<>>
    /\ TokOff
    /\ CacheOff
    /\ AuthOff

\* Time passes.
Tick(d) ==
    /\ ticks < MaxTicks
    /\ ticks' = ticks + 1
    /\ now' = now + d
    /\ UNCHANGED <<modelsCache, getModelsCalls, numCalls, envVars, authVars, turnVars, convVars, tokVars>>

\* A caller calls getModels: with a fresh cache the call returns the cached
\* list; otherwise it starts a fetch and suspends.
GetModels(c) ==
    /\ getModelsCalls[c].pc \in {"idle", "returned", "threw"}
    /\ getModelsCalls[c].info \in {"none", "returned"}
    /\ numCalls < MaxCalls
    /\ numCalls' = numCalls + 1
    /\ getModelsCalls' = [getModelsCalls EXCEPT ![c] =
          IF isModelsCacheFresh(modelsCache, now)
          THEN [NoCall EXCEPT
                !.pc = "returned", !.startedAt = now, !.cacheAtStart = modelsCache,
                !.fetches = 0, !.result = modelsCache.models,
                !.endedAt = now, !.cacheAtEnd = modelsCache]
          ELSE [NoCall EXCEPT
                !.pc = "fetching", !.startedAt = now, !.cacheAtStart = modelsCache,
                !.fetches = 1, !.result = <<>>,
                !.endedAt = 0, !.cacheAtEnd = NoCache]]
    /\ UNCHANGED <<now, ticks, modelsCache, envVars, authVars, turnVars, convVars, tokVars>>

\* The gateway answers a caller's fetch: the list is transformed, the cache
\* is written with the time of the answer, and the call returns the list.
FetchOk(c, data) ==
    /\ getModelsCalls[c].pc = "fetching"
    /\ LET models == transformToVSCodeModels(data)
           written == CacheWrite(getModelsCalls[c].startedAt, now, models) IN
       /\ modelsCache' = written
       /\ getModelsCalls' = [getModelsCalls EXCEPT ![c] =
             [@ EXCEPT !.pc = "returned", !.result = models, !.endedAt = now,
                       !.cacheAtEnd = written,
                       !.info = IF @ = "getModels" THEN "returned" ELSE @,
                       !.infoResult = IF getModelsCalls[c].info = "getModels"
                                      THEN models ELSE @]]
    /\ UNCHANGED <<now, ticks, numCalls, envVars, authVars, turnVars, convVars, tokVars>>

\* The gateway's answer is not ok (or the request fails): fetchModels
\* throws and the exception leaves getModels.
FetchFail(c) ==
    /\ getModelsCalls[c].pc = "fetching"
    /\ getModelsCalls' = [getModelsCalls EXCEPT ![c] =
          [@ EXCEPT !.pc = "threw", !.endedAt = now, !.cacheAtEnd = modelsCache,
                    !.info = IF @ = "getModels" THEN "returned" ELSE @,
                    !.infoResult = IF getModelsCalls[c].info = "getModels"
                                   THEN InformationCatch(modelsCache) ELSE @]]
    /\ UNCHANGED <<now, ticks, modelsCache, numCalls, envVars, authVars, turnVars, convVars, tokVars>>

ModelsNext ==
    \/ \E d \in ClockSteps : Tick(d)
    \/ \E c \in Callers : GetModels(c)
    \/ \E c \in Callers, data \in Catalogs : FetchOk(c, data)
    \/ \E c \in Callers : FetchFail(c)

SpecModels == ModelsInit /\ [][ModelsNext]_vars

(***************************************************************************)
(* The provider's model listing: callers call                              *)
(* provideLanguageModelChatInformation, which resolves the credential and  *)
(* calls getModels, while the clock advances and the gateway answers or    *)
(* fails.                                                                  *)
(***************************************************************************)
\* A caller calls provideLanguageModelChatInformation, which suspends in
\* getApiKey.
ProvideInformation(c) ==
    /\ getModelsCalls[c].pc \in {"idle", "returned", "threw"}
    /\ getModelsCalls[c].info \in {"none", "returned"}
    /\ numCalls < MaxCalls
    /\ numCalls' = numCalls + 1
    /\ getModelsCalls' = [getModelsCalls EXCEPT ![c] =
          [NoCall EXCEPT !.info = "awaitKey"]]
    /\ UNCHANGED <<now, ticks, modelsCache, envVars, authVars, turnVars, convVars, tokVars>>

\* getApiKey resolves with no access token: the empty list is returned and
\* getModels is not called.
InformationNoKey(c) ==
    /\ getModelsCalls[c].info = "awaitKey"
    /\ getModelsCalls' = [getModelsCalls EXCEPT ![c] =
          [@ EXCEPT !.info = "returned", !.apiKey = "none", !.infoResult = <<>>]]
    /\ UNCHANGED <<now, ticks, modelsCache, numCalls, envVars, authVars, turnVars, convVars, tokVars>>

\* getApiKey resolves with a token: getModels is called; with a fresh cache
\* its list is returned, otherwise the call suspends across the fetch.
InformationGetModels(c) ==
    /\ getModelsCalls[c].info = "awaitKey"
    /\ getModelsCalls' = [getModelsCalls EXCEPT ![c] =
          IF isModelsCacheFresh(modelsCache, now)
          THEN [@ EXCEPT
                !.pc = "returned", !.startedAt = now, !.cacheAtStart = modelsCache,
                !.fetches = 0, !.result = modelsCache.models,
                !.endedAt = now, !.cacheAtEnd = modelsCache,
                !.info = "returned", !.apiKey = "key",
                !.infoResult = modelsCache.models]
          ELSE [@ EXCEPT
                !.pc = "fetching", !.startedAt = now, !.cacheAtStart = modelsCache,
                !.fetches = 1, !.info = "getModels", !.apiKey = "key"]]
    /\ UNCHANGED <<now, ticks, modelsCache, numCalls, envVars, authVars, turnVars, convVars, tokVars>>

InfoNext ==
    \/ \E d \in ClockSteps : Tick(d)
    \/ \E c \in Callers : ProvideInformation(c)
    \/ \E c \in Callers : InformationNoKey(c)
    \/ \E c \in Callers : InformationGetModels(c)
    \/ \E c \in Callers, data \in Catalogs : FetchOk(c, data)
    \/ \E c \in Callers : FetchFail(c)

SpecInfo == ModelsInit /\ [][InfoNext]_vars

(***************************************************************************)
(* Two chat turns on the same provider, their steps interleaved.  Each     *)
(* turn's stream and tool invocations carry values of its own.             *)
(***************************************************************************)
PairChunks(t) == {Chunk("text-delta", IF t = "A" THEN "Hel" ELSE "lo", "")}

PairInvocations(t) ==
    {inv \in ToolInvocations : inv.toolCallId = (IF t = "A" THEN "c1" ELSE "c2")}

PairInit ==
    /\ TurnInit
    /\ thinkingCtor = TRUE
    /\ tools = [t \in Turns |-> ToolNames]
    /\ adapter = "inline"
    /\ toolMode = "Auto"
    /\ modelTemperature = "undefined"
    /\ convPc = "off"
    /\ convIn = <<>>
    /\ convFlat = <<>>
    /\ convOut = <<>>
    /\ convAgain = <<>>
    /\ TokOff
    /\ CacheOff
    /\ AuthOff

PairNext ==
    \E t \in Turns :
    \/ Start(t)
    \/ Cancel(t)
    \/ ResumeNoKey(t)
    \/ ResumeIssue(t)
    \/ \E chunk \in PairChunks(t) : StreamChunk(t, chunk)
    \/ StreamEnd(t)
    \/ \E error \in StreamFailures : StreamThrow(t, error)
    \/ \E name \in ToolNames, inv \in PairInvocations(t) :
          ToolExecute(t, name, inv.input, inv.toolCallId)

SpecPair == PairInit /\ [][PairNext]_vars

(***************************************************************************)
(* One chat turn under each of the host's options for the upstream call.   *)
(***************************************************************************)
CallChunks == {Chunk("text-delta", "Hel", "")}

CallInit ==
    /\ TurnInit
    /\ thinkingCtor = TRUE
    /\ tools = [t \in Turns |-> {}]
    /\ adapter = "inline"
    /\ toolMode \in ToolModes
    /\ modelTemperature \in Temperatures
    /\ convPc = "off"
    /\ convIn = <<>>
    /\ convFlat = <<>>
    /\ convOut = <<>>
    /\ convAgain = <<>>
    /\ TokOff
    /\ CacheOff
    /\ AuthOff

CallNext ==
    \E t \in SoloTurns :
    \/ Start(t)
    \/ Cancel(t)
    \/ ResumeNoKey(t)
    \/ ResumeIssue(t)
    \/ \E chunk \in CallChunks : StreamChunk(t, chunk)
    \/ StreamEnd(t)
    \/ \E error \in StreamFailures : StreamThrow(t, error)

SpecCall == CallInit /\ [][CallNext]_vars

(***************************************************************************)
(* One chat turn whose awaits all settle: getApiKey returns and the        *)
(* upstream event sequence ends or raises.                                 *)
(***************************************************************************)
LiveChunks == {Chunk("text-delta", "Hel", ""), Chunk("error", "", "boom")}

LiveInit ==
    /\ TurnInit
    /\ thinkingCtor = TRUE
    /\ tools \in [Turns -> {{}, ToolNames}]
    /\ \A t \in Turns \ SoloTurns : tools[t] = {}
    /\ adapter = "inline"
    /\ toolMode = "Auto"
    /\ modelTemperature = "undefined"
    /\ convPc = "off"
    /\ convIn = <<>>
    /\ convFlat = <<>>
    /\ convOut = <<>>
    /\ convAgain = <<>>
    /\ TokOff
    /\ CacheOff
    /\ AuthOff

\* The await of getApiKey settles: the turn resumes on one of its paths.
CredentialReturns(t) ==
    \/ ResumeNoKey(t)
    \/ \E error \in Failures : ResumeConstructFail(t, error)
    \/ ResumeIssue(t)

\* The for-await loop is left: the event sequence ends or raises.
StreamFinishes(t) ==
    \/ StreamEnd(t)
    \/ \E error \in StreamFailures : StreamThrow(t, error)

LiveNext ==
    \E t \in SoloTurns :
    \/ Start(t)
    \/ Cancel(t)
    \/ ResumeNoKey(t)
    \/ \E error \in Failures : ResumeConstructFail(t, error)
    \/ ResumeIssue(t)
    \/ \E chunk \in LiveChunks : StreamChunk(t, chunk)
    \/ StreamEnd(t)
    \/ \E error \in StreamFailures : StreamThrow(t, error)
    \/ \E name \in ToolNames, inv \in ToolInvocations :
          ToolExecute(t, name, inv.input, inv.toolCallId)

LiveFairness ==
    \A t \in SoloTurns :
        /\ WF_vars(CredentialReturns(t))
        /\ WF_vars(StreamFinishes(t))

SpecLive == LiveInit /\ [][LiveNext]_vars /\ LiveFairness

(***************************************************************************)
(* The authentication provider: createSession, removeSession and           *)
(* switchActiveSession on the secret store, one step per resumption.       *)
(***************************************************************************)
otherVars == <<envVars, turnVars, convVars, tokVars, cacheVars>>

AuthInit ==
    /\ TurnInit
    /\ thinkingCtor = TRUE
    /\ tools = [t \in Turns |-> {}]
    /\ adapter = "inline"
    /\ toolMode = "Auto"
    /\ modelTemperature = "undefined"
    /\ convPc = "off"
    /\ convIn = <<>>
    /\ convFlat = <<>>
    /\ convOut = <<>>
    /\ convAgain = <<>>
    /\ TokOff
    /\ CacheOff
    /\ AuthOff

AuthBegin(c, to) ==
    /\ authCalls[c].pc = "idle"
    /\ authLog.ops < MaxAuthOps
    /\ authLog' = [authLog EXCEPT !.ops = @ + 1]
    /\ authCalls' = [authCalls EXCEPT ![c] = to]

AuthEnd(c) == authCalls' = [authCalls EXCEPT ![c] = NoAuthCall]

\* createSession is called and suspends in the prompts for the session name
\* and the key.
CreateSession(c) ==
    /\ AuthBegin(c, [NoAuthCall EXCEPT !.pc = "prompt"])
    /\ UNCHANGED <<otherVars, secrets, activeSession, sessionEvents>>

\* A prompt is dismissed: createSession throws, nothing is stored.
PromptDismissed(c) ==
    /\ authCalls[c].pc = "prompt"
    /\ AuthEnd(c)
    /\ UNCHANGED <<otherVars, secrets, activeSession, sessionEvents, authLog>>

\* The prompts are answered: the session gets its id and getSessions is
\* called.
PromptAnswered(c) ==
    /\ authCalls[c].pc = "prompt"
    /\ authLog.made < MaxSessions
    /\ authLog' = [authLog EXCEPT !.made = @ + 1]
    /\ authCalls' = [authCalls EXCEPT ![c] =
          [@ EXCEPT !.pc = "createRead", !.session = authLog.made + 1]]
    /\ UNCHANGED <<otherVars, secrets, activeSession, sessionEvents>>

\* secrets.get answers createSession's getSessions with the stored list.
CreateRead(c) ==
    /\ authCalls[c].pc = "createRead"
    /\ authCalls' = [authCalls EXCEPT ![c] =
          [@ EXCEPT !.pc = "createWrite", !.local = secrets]]
    /\ UNCHANGED <<otherVars, secrets, activeSession, sessionEvents, authLog>>

\* secrets.store writes the list createSession read, with the new session
\* at its end.
CreateWrite(c) ==
    /\ authCalls[c].pc = "createWrite"
    /\ secrets' = Append(authCalls[c].local, authCalls[c].session)
    /\ authCalls' = [authCalls EXCEPT ![c] =
          [@ EXCEPT !.pc = "createStored", !.local = secrets']]
    /\ UNCHANGED <<otherVars, activeSession, sessionEvents, authLog>>

\* createSession fires the added event and returns the session.
CreateFire(c) ==
    /\ sessionEvents' = Append(sessionEvents,
                               SessionEvent("added", authCalls[c].session, secrets))
    /\ authLog' = [authLog EXCEPT !.created = @ \cup {authCalls[c].session}]
    /\ AuthEnd(c)

\* createSession resumes after the store: a list of one session makes that
\* session the active one, and the call suspends in the update; otherwise
\* the event is fired at once.
CreateStored(c) ==
    /\ authCalls[c].pc = "createStored"
    /\ IF Len(authCalls[c].local) = 1
       THEN /\ activeSession' = authCalls[c].session
            /\ authCalls' = [authCalls EXCEPT ![c] = [@ EXCEPT !.pc = "createFire"]]
            /\ UNCHANGED <<sessionEvents, authLog>>
       ELSE /\ CreateFire(c)
            /\ UNCHANGED activeSession
    /\ UNCHANGED <<otherVars, secrets>>

\* createSession resumes after setActiveSession and fires the added event.
CreateActivated(c) ==
    /\ authCalls[c].pc = "createFire"
    /\ CreateFire(c)
    /\ UNCHANGED <<otherVars, secrets, activeSession>>

\* removeSession is called with an id and suspends in getSessions.
RemoveSession(c, sessionId) ==
    /\ AuthBegin(c, [NoAuthCall EXCEPT !.pc = "removeRead", !.session = sessionId])
    /\ UNCHANGED <<otherVars, secrets, activeSession, sessionEvents>>

\* secrets.get answers removeSession's getSessions: an id that is not in
\* the list ends the call.
RemoveRead(c) ==
    /\ authCalls[c].pc = "removeRead"
    /\ IF authCalls[c].session \in Ids(secrets)
       THEN authCalls' = [authCalls EXCEPT ![c] =
               [@ EXCEPT !.pc = "removeWrite", !.local = secrets]]
       ELSE AuthEnd(c)
    /\ UNCHANGED <<otherVars, secrets, activeSession, sessionEvents, authLog>>

\* secrets.store writes the list removeSession read, without the session.
RemoveWrite(c) ==
    /\ authCalls[c].pc = "removeWrite"
    /\ secrets' = Splice(authCalls[c].local, authCalls[c].session)
    /\ authCalls' = [authCalls EXCEPT ![c] =
          [@ EXCEPT !.pc = "removeStored", !.local = secrets']]
    /\ UNCHANGED <<otherVars, activeSession, sessionEvents, authLog>>

\* removeSession fires the removed event and returns.
RemoveFire(c) ==
    /\ sessionEvents' = Append(sessionEvents,
                               SessionEvent("removed", authCalls[c].session, secrets))
    /\ authLog' = [authLog EXCEPT !.removed = @ \cup {authCalls[c].session}]
    /\ AuthEnd(c)

\* removeSession resumes after the store: when the removed session was the
\* active one, the first of the remaining sessions (or none) becomes active
\* and the call suspends in the update; otherwise the event is fired at once.
RemoveStored(c) ==
    /\ authCalls[c].pc = "removeStored"
    /\ IF activeSession = authCalls[c].session
       THEN /\ activeSession' = NewActiveSession(authCalls[c].local, authCalls[c].session)
            /\ authCalls' = [authCalls EXCEPT ![c] = [@ EXCEPT !.pc = "removeFire"]]
            /\ UNCHANGED <<sessionEvents, authLog>>
       ELSE /\ RemoveFire(c)
            /\ UNCHANGED activeSession
    /\ UNCHANGED <<otherVars, secrets>>

\* removeSession resumes after setActiveSession and fires the removed event.
RemoveActivated(c) ==
    /\ authCalls[c].pc = "removeFire"
    /\ RemoveFire(c)
    /\ UNCHANGED <<otherVars, secrets, activeSession>>

\* switchActiveSession is called and suspends in getSessions.
SwitchActiveSession(c) ==
    /\ AuthBegin(c, [NoAuthCall EXCEPT !.pc = "switchRead"])
    /\ UNCHANGED <<otherVars, secrets, activeSession, sessionEvents>>

\* secrets.get answers: with fewer than two sessions the call ends;
\* otherwise the active id is read and the quick pick is shown.
SwitchRead(c) ==
    /\ authCalls[c].pc = "switchRead"
    /\ IF Len(secrets) <= 1
       THEN AuthEnd(c)
       ELSE authCalls' = [authCalls EXCEPT ![c] =
               [@ EXCEPT !.pc = "switchPick", !.local = secrets,
                         !.active = activeSession]]
    /\ UNCHANGED <<otherVars, secrets, activeSession, sessionEvents, authLog>>

\* The quick pick is answered (NullId: dismissed): a session other than the
\* one that was active becomes the active one.
SwitchPick(c, selected) ==
    /\ authCalls[c].pc = "switchPick"
    /\ selected \in Ids(authCalls[c].local) \cup {NullId}
    /\ activeSession' = IF selected # NullId /\ selected # authCalls[c].active
                        THEN selected ELSE activeSession
    /\ AuthEnd(c)
    /\ UNCHANGED <<otherVars, secrets, sessionEvents, authLog>>

\* One caller: every operation completes before the next begins.
SoloAuthCallers == {"p"}

AuthNext ==
    \E c \in SoloAuthCallers :
    \/ CreateSession(c)
    \/ PromptDismissed(c)
    \/ PromptAnswered(c)
    \/ CreateRead(c)
    \/ CreateWrite(c)
    \/ CreateStored(c)
    \/ CreateActivated(c)
    \/ \E sessionId \in SessionIds : RemoveSession(c, sessionId)
    \/ RemoveRead(c)
    \/ RemoveWrite(c)
    \/ RemoveStored(c)
    \/ RemoveActivated(c)
    \/ SwitchActiveSession(c)
    \/ SwitchRead(c)
    \/ \E selected \in SessionIds \cup {NullId} : SwitchPick(c, selected)

SpecAuth == AuthInit /\ [][AuthNext]_vars

\* Two callers whose createSession and removeSession calls overlap.
RaceNext ==
    \E c \in AuthCallers :
    \/ CreateSession(c)
    \/ PromptDismissed(c)
    \/ PromptAnswered(c)
    \/ CreateRead(c)
    \/ CreateWrite(c)
    \/ CreateStored(c)
    \/ CreateActivated(c)
    \/ \E sessionId \in SessionIds : RemoveSession(c, sessionId)
    \/ RemoveRead(c)
    \/ RemoveWrite(c)
    \/ RemoveStored(c)
    \/ RemoveActivated(c)

SpecRace == AuthInit /\ [][RaceNext]_vars

(***************************************************************************)
(* The claims about the chat turn, checked under Spec.                     *)
(***************************************************************************)
\* The parts on a turn's channel that a reporter of kind src put there.
PartsFrom(t, src) ==
    {k \in 1..Len(reported[t]) : origin[t][k].src = src}

\* C1: when a turn ends with the host's cancellation requested and the
\* stream raising an abort exception, the turn reports no error text part:
\* the catch block puts nothing on the channel.
C1_AbortReportsNoError ==
    \A t \in Turns :
        (/\ pc[t] = "done"
         /\ cancelRequested[t]
         /\ \E i \in 1..Len(caught[t]) : isAbort(caught[t][i]))
        => PartsFrom(t, "catch") = {}

\* C2: if the host requests cancellation before any chunk of the stream has
\* arrived (also while the turn awaits the credential) and nothing was
\* reported by then, the turn reports no part of any kind.
C2_EarlyCancelReportsNothing ==
    \A t \in Turns :
        (/\ cancelledAt[t].pc \in {"awaitKey", "streaming"}
         /\ cancelledAt[t].events = 0
         /\ cancelledAt[t].parts = 0)
        => reported[t] = <<>>

\* The numbers of a set in increasing order.
Ascending(S) ==
    [j \in 1..Cardinality(S) |-> CHOOSE x \in S : Cardinality({y \in S : y <= x}) = j]

\* The positions in consumed[t] of the text-delta chunks, in arrival order,
\* and the positions in reported[t] of the parts reported for them.
TextDeltaEvents(t) ==
    Ascending({i \in 1..Len(consumed[t]) : consumed[t][i].type = "text-delta"})

TextDeltaReports(t) ==
    Ascending({k \in PartsFrom(t, "chunk") :
                  consumed[t][origin[t][k].ev].type = "text-delta"})

\* C3: the parts reported for the text-delta chunks are, in the order of the
\* channel, one text part per text-delta chunk in arrival order, each with
\* the chunk's delta unchanged.
C3_TextDeltasInOrder ==
    \A t \in Turns :
        LET events == TextDeltaEvents(t)
            reports == TextDeltaReports(t)
        IN  /\ Len(reports) = Len(events)
            /\ \A j \in 1..Len(reports) :
                  /\ origin[t][reports[j]].ev = events[j]
                  /\ reported[t][reports[j]].kind = "text"
                  /\ reported[t][reports[j]].value = consumed[t][events[j]].delta

\* C3's case: "Hel" then "lo" arrived and two text parts are on the channel.
C3_Witness ==
    /\ Len(consumed["A"]) = 2
    /\ consumed["A"][1] = Chunk("text-delta", "Hel", "")
    /\ consumed["A"][2] = Chunk("text-delta", "lo", "")
    /\ Len(reported["A"]) = 2
    /\ reported["A"][1].value = "Hel"
    /\ reported["A"][2].value = "lo"
\* The error text the turn owes the host for an exception.
ExpectedErrorText(error) ==
    "\n\n**Error:** "
    \o (IF error.kind \in {"Error", "string", "object"} THEN error.text
        ELSE "An unexpected error occurred")
    \o "\n\n"

\* C4: no exception raised inside a turn leaves provideLanguageModelChatResponse:
\* a turn that stopped has returned, and an exception it met is on the
\* channel as one error text part, the last part of the turn.
C4_FailuresBecomeErrorText ==
    \A t \in Turns :
        /\ outcome[t] # "threw"
        /\ pc[t] = "done" => outcome[t] = "returned"
        /\ caught[t] # <<>> =>
              /\ pc[t] = "done"
              /\ Len(caught[t]) = 1
              /\ Cardinality(PartsFrom(t, "catch")) = 1
              /\ Len(reported[t]) \in PartsFrom(t, "catch")
              /\ reported[t][Len(reported[t])] =
                    LanguageModelTextPart(ExpectedErrorText(caught[t][1]))

\* C4's case: building the call threw a string and the turn returned.
C4_Witness ==
    /\ pc["A"] = "done"
    /\ apiKey["A"] = "key"
    /\ issued["A"] = 0
    /\ caught["A"] = <<Thrown("string", "", "oops")>>
    /\ outcome["A"] = "returned"

\* C5: a turn that got no credential reports exactly one text part saying
\* so, issues no upstream call, resolves the credential once and returns.
C5_NoCredentialOneText ==
    \A t \in Turns :
        apiKey[t] = "none" =>
            /\ pc[t] = "done"
            /\ outcome[t] = "returned"
            /\ issued[t] = 0
            /\ credCalls[t] = 1
            /\ consumed[t] = <<>>
            /\ reported[t] = <<LanguageModelTextPart(
                   "\n\n**Error:** Vercel AI Gateway API key not found\n\n")>>

\* C5's case: the credential was absent and the turn is over.
C5_Witness ==
    /\ apiKey["A"] = "none"
    /\ pc["A"] = "done"
    /\ Len(reported["A"]) = 1

\* C6: a turn that has left the call, by any path, has disposed the
\* subscription that links the host's cancellation to its abort controller.
C6_SubscriptionDisposed ==
    \A t \in Turns :
        (pc[t] = "done" \/ outcome[t] # "none") => subscription[t] = "disposed"

\* C6's case: the turn was cancelled, the stream raised the abort, the turn
\* is over and the subscription is disposed.
C6_Witness ==
    /\ pc["A"] = "done"
    /\ cancelRequested["A"]
    /\ caught["A"] = <<AbortError>>
    /\ subscription["A"] = "disposed"

\* The parts the i-th handler invocation of a turn put on the channel.
PartsOfCall(t, i) ==
    {k \in PartsFrom(t, "tool") : origin[t][k].ev = i}

\* C7: whenever a handler has returned a result to the SDK, the tool-call
\* part of that call was on the channel before the result was returned.
C7_ReportedBeforeResult ==
    \A t \in Turns : \A i \in 1..Len(toolResults[t]) :
        LET r == toolResults[t][i] IN
        \E k \in PartsOfCall(t, i) :
            /\ k <= r.reportedBefore
            /\ reported[t][k].kind = "toolcall"
            /\ reported[t][k].callId = r.result.toolCallId
            /\ reported[t][k].name = r.call.name

\* C7's case: a handler has returned after a chunk was relayed.
C7_Witness ==
    /\ Len(toolResults["A"]) >= 1
    /\ Len(consumed["A"]) >= 1
    /\ toolResults["A"][1].reportedBefore >= 1

\* C8, as stated: each invocation with input i and supplied call id c
\* reports exactly one tool-call part {c, name, i} and returns a result with
\* the same c, name and i, tagged as delegated to the host.
C8_ResultTaggedDelegated ==
    \A t \in Turns : \A i \in 1..Len(toolResults[t]) :
        LET r == toolResults[t][i] IN
        /\ Cardinality(PartsOfCall(t, i)) = 1
        /\ \A k \in PartsOfCall(t, i) :
              reported[t][k] =
                 LanguageModelToolCallPart(r.call.toolCallId, r.call.name, r.call.input)
        /\ r.result.toolCallId = r.call.toolCallId
        /\ r.result.name = r.call.name
        /\ r.result.input = r.call.input
        /\ r.result.status = "delegated_to_vscode"

\* C8, amended: each invocation reports exactly one tool-call part with the
\* tool's name and the input, and returns a result with the call id of that
\* part and the tool's name.  The turn's own handler uses the supplied call
\* id and returns the input, with no tag; convertTools' handler makes up the
\* call id and returns the tag 'delegated_to_vscode' without the input.
C8_ToolHandlerResult ==
    \A t \in Turns : \A i \in 1..Len(toolResults[t]) :
        LET r == toolResults[t][i] IN
        /\ Cardinality(PartsOfCall(t, i)) = 1
        /\ \A k \in PartsOfCall(t, i) :
              reported[t][k] =
                 LanguageModelToolCallPart(r.result.toolCallId, r.call.name, r.call.input)
        /\ r.result.name = r.call.name
        /\ IF adapter = "inline"
           THEN /\ r.result.toolCallId = r.call.toolCallId
                /\ r.result.input = r.call.input
                /\ r.result.status = ""
           ELSE /\ r.result.toolCallId \in GeneratedIds
                /\ r.result.input = ""
                /\ r.result.status = "delegated_to_vscode"

\* C8's case: the turn's own handler was invoked with call id c2 and input in2.
C8_Witness ==
    /\ adapter = "inline"
    /\ Len(toolResults["A"]) >= 1
    /\ toolResults["A"][1].call = [toolCallId |-> "c2", name |-> "search", input |-> "in2"]

(***************************************************************************)
(* The claims about the normalizer, checked under SpecConv.                *)
(***************************************************************************)
\* C9: the output of convertMessages holds no message whose content is an
\* empty or whitespace-only string, and none whose content is an empty
\* sequence of blocks.
C9_NoBlankContent ==
    convPc \in {"normalized", "renormalized"} =>
        \A i \in 1..Len(convOut) :
            IF convOut[i].isString
            THEN \E k \in 1..Len(convOut[i].text) : convOut[i].text[k] \notin Whitespace
            ELSE Len(convOut[i].blocks) >= 1

\* C9's case: a history with a whitespace-only text part and a message with
\* no part was normalized, and something was left.
C9_Witness ==
    /\ convPc = "normalized"
    /\ \E m \in 1..Len(convIn) : convIn[m].content = <<>>
    /\ \E m \in 1..Len(convIn) : \E q \in 1..Len(convIn[m].content) :
          convIn[m].content[q] = TextPart(<<" ">>)
    /\ Len(convOut) >= 1

\* C10: normalizing the output of convertMessages, given back as host
\* messages, yields the same messages: roles, tool names and contents.
C10_Idempotent ==
    convPc = "renormalized" => convAgain = convOut

\* C11: in the output of convertMessages no assistant-role message stands
\* before the first user-role message; an output with no user-role message
\* holds no assistant-role message at all.
C11_NoAssistantBeforeUser ==
    convPc = "normalized" =>
        \A i \in 1..Len(convOut) :
            convOut[i].role = "assistant" =>
                \E j \in 1..(i - 1) : convOut[j].role = "user"

\* The content parts of a chat history, in order, across its messages.
RECURSIVE FlatContent(_)
FlatContent(messages) ==
    IF messages = <<>> THEN <<>>
    ELSE Head(messages).content \o FlatContent(Tail(messages))

IsNestedText(part) == part.kind = "text"

\* The texts t1..tn of the nested text parts of a tool-result part.
NestedTexts(part) ==
    LET nested == SelectSeq(part.content, IsNestedText)
    IN  [k \in 1..Len(nested) |-> nested[k].value]

IsResultWithText(part) ==
    part.kind = "toolresult" /\ Len(NestedTexts(part)) >= 1

IsToolMessage(msg) == msg.role = "tool"

\* t1..tn with one space between neighbours, built from the last text back.
RECURSIVE SpacedFromEnd(_)
SpacedFromEnd(texts) ==
    IF Len(texts) = 0 THEN <<>>
    ELSE IF Len(texts) = 1 THEN texts[1]
    ELSE SpacedFromEnd(SubSeq(texts, 1, Len(texts) - 1)) \o <<" ">> \o texts[Len(texts)]

\* C12: each tool-result part with nested text parts t1..tn (n >= 1) becomes
\* exactly one output message with role tool, holding exactly one tool-result
\* block whose toolCallId is the part's call id and whose output value is
\* t1..tn joined in order with a single space; the tool messages of the output
\* are those of these parts, in order.
C12_ToolResultJoined ==
    convPc = "normalized" =>
        LET parts == SelectSeq(FlatContent(convIn), IsResultWithText)
            msgs == SelectSeq(convOut, IsToolMessage)
        IN  /\ Len(msgs) = Len(parts)
            /\ \A k \in 1..Len(msgs) :
                  /\ ~msgs[k].isString
                  /\ Len(msgs[k].blocks) = 1
                  /\ msgs[k].blocks[1].type = "tool-result"
                  /\ msgs[k].blocks[1].toolCallId = parts[k].callId
                  /\ msgs[k].blocks[1].output = SpacedFromEnd(NestedTexts(parts[k]))

\* C12's case: a tool-result part for call c1 with nested texts "a" and "b"
\* was normalized to a tool message with value "a b".
C12_Witness ==
    /\ convPc = "normalized"
    /\ \E m \in 1..Len(convIn) : \E q \in 1..Len(convIn[m].content) :
          convIn[m].content[q] =
              ToolResultPart("c1", <<TextPart(<<"a">>), TextPart(<<"b">>)>>)
    /\ \E i \in 1..Len(convOut) :
          /\ convOut[i].role = "tool"
          /\ convOut[i].blocks[1].toolCallId = "c1"
          /\ convOut[i].blocks[1].output = <<"a", " ", "b">>

\* A content part for which the loop over msg.content pushes a message.
IsConvertible(part) ==
    \/ part.kind \in {"text", "toolcall"}
    \/ IsResultWithText(part)

\* A content part whose message is in the final output: a text part with a
\* character that is not white space, a tool call, a tool result with text.
IsKept(part) ==
    \/ part.kind = "text" /\ \E k \in 1..Len(part.value) : part.value[k] \notin Whitespace
    \/ part.kind = "toolcall"
    \/ IsResultWithText(part)

\* The number of messages pushed for the first m messages of a history: one
\* per convertible part, and one for a message with no convertible part.
RECURSIVE PushedBefore(_, _)
PushedBefore(messages, m) ==
    IF m = 0 THEN 0
    ELSE PushedBefore(messages, m - 1)
         + (LET n == Len(SelectSeq(messages[m].content, IsConvertible))
            IN  IF n = 0 THEN 1 ELSE n)

KnownChunkTypes == {"text-delta", "reasoning-delta", "error"}

\* C14: the step that consumes a chunk whose type is none of text-delta,
\* reasoning-delta and error reports exactly one text part, with the value
\* " ", raises nothing, and leaves the turn in the for-await loop, where the
\* following events are consumed.
C14_UnknownChunkOneSpace ==
    [][\A t \in Turns :
          (/\ Len(consumed'[t]) = Len(consumed[t]) + 1
           /\ consumed'[t][Len(consumed'[t])].type \notin KnownChunkTypes)
          => /\ reported'[t] = Append(reported[t], LanguageModelTextPart(" "))
             /\ pc'[t] = "streaming"
             /\ caught'[t] = caught[t]
             /\ outcome'[t] = "none"]_vars

\* C14's case: a chunk of type "start" arrived, then a text-delta: the
\* channel holds " " and the delta.
C14_Witness ==
    /\ Len(consumed["A"]) = 2
    /\ consumed["A"][1].type = "start"
    /\ consumed["A"][2] = Chunk("text-delta", "Hel", "")
    /\ reported["A"] = <<LanguageModelTextPart(" "), LanguageModelTextPart("Hel")>>

\* C17: within one turn streamText is called at most once and getApiKey at
\* most once; a turn that met an exception (a failure or an abort) is over,
\* with no second upstream call, and an upstream call is made only with a
\* credential.
C17_OneCallPerTurn ==
    \A t \in Turns :
        /\ issued[t] <= 1
        /\ credCalls[t] <= 1
        /\ issued[t] = 1 => credCalls[t] = 1 /\ apiKey[t] = "key"
        /\ caught[t] # <<>> => pc[t] = "done" /\ Len(caught[t]) = 1

\* C17's case: the stream of a cancelled turn raised the abort after the one
\* upstream call, and the turn is over.
C17_Witness ==
    /\ pc["A"] = "done"
    /\ issued["A"] = 1
    /\ credCalls["A"] = 1
    /\ cancelRequested["A"]
    /\ caught["A"] = <<AbortError>>

(***************************************************************************)
(* The claims about the token estimate, checked under SpecTok.             *)
(***************************************************************************)
\* The least integer r with 4 * r >= n.
CeilQuarter(n) == CHOOSE r \in 0..n : 4 * r >= n /\ 4 * (r - 1) < n

\* The sum of CeilQuarter over the lengths of the first n parts that are text
\* parts.
RECURSIVE TextPartsEstimate(_, _)
TextPartsEstimate(content, n) ==
    IF n = 0 THEN 0
    ELSE TextPartsEstimate(content, n - 1)
         + (IF content[n].kind = "text" THEN CeilQuarter(Len(content[n].value)) ELSE 0)

\* C15: provideTokenCount returns ceil(length / 4) for a raw string (0 for
\* the empty string, 1 for a string of 4 characters) and, for a message, the
\* sum over its text parts of ceil(part length / 4), tool-call and
\* tool-result parts adding nothing; the result is an integer >= 0.
C15_TokenCount ==
    tokPc \in {"first", "second", "third"} =>
        /\ countA \in Nat
        /\ tokA.isString =>
              /\ countA = CeilQuarter(Len(tokA.text))
              /\ Len(tokA.text) = 0 => countA = 0
              /\ Len(tokA.text) = 4 => countA = 1
        /\ ~tokA.isString =>
              countA = TextPartsEstimate(tokA.content, Len(tokA.content))

\* C15's case: the count of a message with a text part of 3 characters and a
\* tool-call part is 1.
C15_Witness ==
    /\ tokPc = "first"
    /\ tokA = MessageText(<<TextPart(Str(3)), ToolCallPart("c1", "search", "in1")>>)
    /\ countA = 1

\* The total length of the text parts of a text.
RECURSIVE TextLength(_, _)
TextLength(content, n) ==
    IF n = 0 THEN 0
    ELSE TextLength(content, n - 1)
         + (IF content[n].kind = "text" THEN Len(content[n].value) ELSE 0)

TotalTextLength(text) ==
    IF text.isString THEN Len(text.text) ELSE TextLength(text.content, Len(text.content))

\* C16, as stated: for two texts a and b (raw strings or messages) with the
\* total text length of a at most that of b, the count of a is at most the
\* count of b; and equal texts have equal counts, whatever was counted
\* between.
C16_MonotonicInTotalLength ==
    tokPc = "third" =>
        /\ TotalTextLength(tokA) <= TotalTextLength(tokB) => countA <= countB
        /\ tokA = tokB => countA = countB
        /\ countAgain = countA

\* The message b extends the message a: it has a's parts in a's order, each
\* text part of a as a text part at least as long, and maybe more parts.
Extends(a, b) ==
    /\ Len(a.content) <= Len(b.content)
    /\ \A i \in 1..Len(a.content) :
          a.content[i].kind = "text" =>
              /\ b.content[i].kind = "text"
              /\ Len(a.content[i].value) <= Len(b.content[i].value)

NumTextParts(text) ==
    IF text.isString THEN 1
    ELSE Len(SelectSeq(text.content, IsNestedText))

\* C16, amended: the count is monotonic in the length of a raw string, and
\* for messages it is monotonic part by part (lengthening text parts or
\* adding parts never lowers it); in the total text length it is monotonic
\* only up to the rounding of each part: 4 * count lies between the total
\* text length and that length plus 3 per text part.  Equal texts have equal
\* counts, whatever was counted between.
C16_MonotonicPerPart ==
    tokPc = "third" =>
        /\ (tokA.isString /\ tokB.isString /\ Len(tokA.text) <= Len(tokB.text))
              => countA <= countB
        /\ (~tokA.isString /\ ~tokB.isString /\ Extends(tokA, tokB))
              => countA <= countB
        /\ 4 * countA >= TotalTextLength(tokA)
        /\ 4 * countA <= TotalTextLength(tokA) + 3 * NumTextParts(tokA)
        /\ tokA = tokB => countA = countB
        /\ countAgain = countA

\* C16's case: a message with a text part of 4 characters was counted, then
\* the message with one more text part of a character, then the first again.
C16_Witness ==
    /\ tokPc = "third"
    /\ tokA = MessageText(<<TextPart(Str(4))>>)
    /\ tokB = MessageText(<<TextPart(Str(4)), TextPart(Str(1))>>)
    /\ countA = 1
    /\ countB = 2
    /\ countAgain = 1

\* C20: a turn whose cancellation was requested while it awaited the
\* credential, before the upstream call, never calls streamText.
C20_NoIssueAfterCancel ==
    \A t \in Turns :
        cancelledAt[t].pc = "awaitKey" => issued[t] = 0

(***************************************************************************)
(* The claims about the model catalog client, checked under SpecModels.    *)
(***************************************************************************)
\* The call was made with a cache written less than five minutes before.
WithinFiveMinutes(call) ==
    /\ call.cacheAtStart.present
    /\ call.startedAt - call.cacheAtStart.fetchedAt < 300000

\* C18: a call of getModels made less than 5 minutes after the fetch time of
\* the cache returns the cached list at once and starts no fetch; a call
\* made 5 minutes or more after it, or with no cache, starts exactly one
\* fetch and, when the fetch has answered, has replaced the cache with the
\* list it returns and the time of the answer.
C18_CacheFiveMinutes ==
    \A c \in Callers :
        LET call == getModelsCalls[c] IN
        /\ call.pc # "idle" =>
              IF WithinFiveMinutes(call)
              THEN /\ call.pc = "returned"
                   /\ call.fetches = 0
                   /\ call.result = call.cacheAtStart.models
                   /\ call.cacheAtEnd = call.cacheAtStart
                   /\ call.endedAt = call.startedAt
              ELSE /\ call.fetches = 1
                   /\ call.pc = "returned" =>
                         /\ call.cacheAtEnd.present
                         /\ call.cacheAtEnd.models = call.result
                         /\ call.cacheAtEnd.fetchedAt = call.endedAt
                         /\ call.result # <<>>

\* C18's case: a call made 299999 ms after the fetch time returned the
\* cached list without a fetch, and the call made 1 ms later fetched and
\* wrote the cache anew.
C18_Witness ==
    /\ getModelsCalls["p"].pc = "returned"
    /\ getModelsCalls["p"].cacheAtStart.present
    /\ getModelsCalls["p"].startedAt - getModelsCalls["p"].cacheAtStart.fetchedAt = 299999
    /\ getModelsCalls["p"].fetches = 0
    /\ getModelsCalls["q"].pc = "returned"
    /\ getModelsCalls["q"].cacheAtStart.present
    /\ getModelsCalls["q"].startedAt - getModelsCalls["q"].cacheAtStart.fetchedAt = 300000
    /\ getModelsCalls["q"].fetches = 1
    /\ modelsCache.fetchedAt = 300000

(***************************************************************************)
(* The claims about two concurrent chat turns, checked under SpecPair.     *)
(***************************************************************************)
\* The part is what the turn owes the host for the chunk.
DerivedFromChunk(part, chunk) ==
    CASE chunk.type = "text-delta" -> part = LanguageModelTextPart(chunk.delta)
      [] chunk.type = "reasoning-delta" -> part = LanguageModelThinkingPart(chunk.delta)
      [] chunk.type = "error" ->
            part \in {LanguageModelTextPart("\n\n**Error:** " \o chunk.errorText \o "\n\n"),
                      LanguageModelTextPart("\n\n**Error:** Unknown error occurred\n\n")}
      [] OTHER -> part = LanguageModelTextPart(" ")

\* C19: with two turns interleaved, a turn's upstream call is aborted only
\* if that turn's own cancellation was requested, an abort exception is met
\* only by a cancelled turn, and every part on a turn's channel derives from
\* a chunk of that turn's own stream, from an invocation of that turn's own
\* tool handlers, or from the exception that turn itself met.
C19_TurnsIsolated ==
    \A t \in Turns :
        /\ aborted[t] => cancelRequested[t]
        /\ (\E i \in 1..Len(caught[t]) : isAbort(caught[t][i])) => cancelRequested[t]
        /\ Len(origin[t]) = Len(reported[t])
        /\ \A k \in 1..Len(reported[t]) :
              LET o == origin[t][k] IN
              CASE o.src = "chunk" ->
                      /\ o.ev \in 1..Len(consumed[t])
                      /\ DerivedFromChunk(reported[t][k], consumed[t][o.ev])
                [] o.src = "tool" ->
                      /\ o.ev \in 1..Len(toolResults[t])
                      /\ reported[t][k] =
                            LanguageModelToolCallPart(toolResults[t][o.ev].call.toolCallId,
                                                      toolResults[t][o.ev].call.name,
                                                      toolResults[t][o.ev].call.input)
                [] OTHER ->
                      /\ caught[t] # <<>>
                      /\ reported[t][k] =
                            LanguageModelTextPart(ExpectedErrorText(caught[t][1]))

\* C19's case: both turns were streaming when A was cancelled; A's stream
\* raised the abort, and B, not aborted, went on to relay its own chunk and
\* its own tool call.
C19_Witness ==
    /\ cancelRequested["A"]
    /\ cancelledAt["A"].pc = "streaming"
    /\ caught["A"] = <<AbortError>>
    /\ ~cancelRequested["B"]
    /\ ~aborted["B"]
    /\ pc["B"] = "done"
    /\ caught["B"] = <<>>
    /\ reported["B"] = <<LanguageModelTextPart("lo"),
                         LanguageModelToolCallPart("c2", "search", "in2")>>
    /\ reported["A"][1] = LanguageModelTextPart("Hel")

(***************************************************************************)
(* Claims about cancellation and the events of the stream, under Spec.     *)
(***************************************************************************)
\* C21: once the host has requested cancellation of a streaming turn, no
\* chunk that arrives afterwards is translated into a reported part: the
\* channel holds no part reported for a chunk that came after the request.
C21_NoReportAfterCancel ==
    \A t \in Turns :
        cancelledAt[t].pc = "streaming" =>
            \A k \in PartsFrom(t, "chunk") : origin[t][k].ev <= cancelledAt[t].events

\* C22: the abort signal of a turn is never aborted before the turn has
\* issued its upstream call.
C22_NoAbortBeforeIssue ==
    \A t \in Turns : aborted[t] => issued[t] >= 1

\* The step consumes a chunk of the given type as the next event of turn t.
ConsumesChunk(t, type) ==
    /\ Len(consumed'[t]) = Len(consumed[t]) + 1
    /\ consumed'[t][Len(consumed'[t])].type = type

\* The chunk the step consumes.
NewChunk(t) == consumed'[t][Len(consumed'[t])]

\* The turn is still in the for-await loop after the step, nothing raised.
GoesOn(t) ==
    /\ pc'[t] = "streaming"
    /\ caught'[t] = caught[t]
    /\ outcome'[t] = "none"

\* C23: the step that consumes an error chunk reports exactly one text part,
\* "\n\n**Error:** <errorText>\n\n", with 'Unknown error occurred' for an
\* empty or absent errorText, and leaves the turn in the for-await loop,
\* where the following events are consumed and translated.
C23_ErrorChunkNotTerminal ==
    [][\A t \in Turns :
          ConsumesChunk(t, "error") =>
              /\ reported'[t] =
                    Append(reported[t],
                           LanguageModelTextPart(
                               "\n\n**Error:** "
                               \o (IF NewChunk(t).errorText = "" THEN "Unknown error occurred"
                                   ELSE NewChunk(t).errorText)
                               \o "\n\n"))
              /\ GoesOn(t)]_vars

\* C23's case: an error chunk with no text arrived, then a text-delta: the
\* channel holds the generic error text and the delta.
C23_Witness ==
    /\ Len(consumed["A"]) = 2
    /\ consumed["A"][1] = Chunk("error", "", "")
    /\ consumed["A"][2] = Chunk("text-delta", "lo", "")
    /\ reported["A"] =
          <<LanguageModelTextPart("\n\n**Error:** Unknown error occurred\n\n"),
            LanguageModelTextPart("lo")>>

\* C24, as stated: the step that consumes a reasoning-delta chunk reports
\* exactly one thinking part carrying the delta if the host has the
\* thinking-part class, and nothing if it has not; the turn goes on.
C24_ReasoningDeltaReported ==
    [][\A t \in Turns :
          ConsumesChunk(t, "reasoning-delta") =>
              /\ reported'[t] =
                    (IF thinkingCtor
                     THEN Append(reported[t], LanguageModelThinkingPart(NewChunk(t).delta))
                     ELSE reported[t])
              /\ GoesOn(t)]_vars

\* C24, amended: the step that consumes a reasoning-delta chunk reports
\* exactly one thinking part carrying the delta if the host has the
\* thinking-part class and the delta is not empty; it reports nothing if the
\* host has not the class or the delta is empty; the turn goes on.
C24_ReasoningDeltaNonEmpty ==
    [][\A t \in Turns :
          ConsumesChunk(t, "reasoning-delta") =>
              /\ reported'[t] =
                    (IF thinkingCtor /\ NewChunk(t).delta # ""
                     THEN Append(reported[t], LanguageModelThinkingPart(NewChunk(t).delta))
                     ELSE reported[t])
              /\ GoesOn(t)]_vars

\* C24's case: the host has no thinking-part class; a reasoning-delta
\* arrived and left the channel empty, and the text-delta after it was
\* relayed.
C24_Witness ==
    /\ ~thinkingCtor
    /\ Len(consumed["A"]) = 2
    /\ consumed["A"][1] = Chunk("reasoning-delta", "hm", "")
    /\ consumed["A"][2] = Chunk("text-delta", "Hel", "")
    /\ reported["A"] = <<LanguageModelTextPart("Hel")>>

\* The parts the turn owes the host for a chunk.
ExpectedParts(chunk) ==
    CASE chunk.type = "text-delta" -> <<LanguageModelTextPart(chunk.delta)>>
      [] chunk.type = "reasoning-delta" ->
            IF thinkingCtor /\ chunk.delta # ""
            THEN <<LanguageModelThinkingPart(chunk.delta)>> ELSE <<>>
      [] chunk.type = "error" ->
            <<LanguageModelTextPart(
                "\n\n**Error:** "
                \o (IF chunk.errorText = "" THEN "Unknown error occurred" ELSE chunk.errorText)
                \o "\n\n")>>
      [] OTHER -> <<LanguageModelTextPart(" ")>>

\* The parts owed for the first n chunks, in order.
RECURSIVE ExpectedRelay(_, _)
ExpectedRelay(chunks, n) ==
    IF n = 0 THEN <<>>
    ELSE ExpectedRelay(chunks, n - 1) \o ExpectedParts(chunks[n])

\* The turn met an exception that is not an abort.
FailedNotAborted(t) ==
    caught[t] # <<>> /\ ~isAbort(caught[t][1])

\* C25: when a turn has failed with an exception that is not an abort after
\* k chunks, the parts on the channel reported for chunks are exactly the
\* parts of those k chunks, in order, each tool-call part a handler reported
\* is still there, and one error text part, the last part, follows them; the
\* failing step appends that part to what was reported and changes nothing
\* of it, and nothing is reported once the turn is over.
C25_FailureKeepsPartialOutput ==
    /\ [](\A t \in Turns :
            FailedNotAborted(t) =>
                LET chunkParts == Ascending(PartsFrom(t, "chunk"))
                    n == Len(reported[t])
                IN  /\ pc[t] = "done"
                    /\ [j \in 1..Len(chunkParts) |-> reported[t][chunkParts[j]]]
                          = ExpectedRelay(consumed[t], Len(consumed[t]))
                    /\ Cardinality(PartsFrom(t, "tool")) = Len(toolResults[t])
                    /\ PartsFrom(t, "catch") = {n}
                    /\ reported[t][n] = LanguageModelTextPart(ExpectedErrorText(caught[t][1])))
    /\ [][\A t \in Turns :
            /\ (caught[t] = <<>> /\ FailedNotAborted(t)')
                  => reported'[t] =
                        Append(reported[t],
                               LanguageModelTextPart(ExpectedErrorText(caught'[t][1])))
            /\ pc[t] = "done" => reported'[t] = reported[t]]_vars

\* C25's case: "Hel" was relayed, a tool call was reported, then the stream
\* raised an error: the channel holds the three parts, the error text last.
C25_Witness ==
    /\ pc["A"] = "done"
    /\ caught["A"] = <<Thrown("Error", "Error", "boom")>>
    /\ consumed["A"] = <<Chunk("text-delta", "Hel", "")>>
    /\ Len(toolResults["A"]) = 1
    /\ Len(reported["A"]) = 3
    /\ reported["A"][1] = LanguageModelTextPart("Hel")
    /\ reported["A"][3] = LanguageModelTextPart("\n\n**Error:** boom\n\n")

(***************************************************************************)
(* Further claims about the normalizer, checked under SpecConv.            *)
(***************************************************************************)
\* The tool-result part's nested texts, joined, have a character.
HasJoinedText(part) ==
    /\ part.kind = "toolresult"
    /\ \E k \in 1..Len(part.content) :
          part.content[k].kind = "text" /\ Len(part.content[k].value) > 0

\* C26: the output of convertMessages holds a tool message only for a
\* tool-result part whose nested texts, joined with spaces, are not empty:
\* as many tool messages as such parts, and none with an empty value.
C26_NoEmptyToolResult ==
    convPc = "normalized" =>
        /\ Len(SelectSeq(convOut, IsToolMessage))
              = Len(SelectSeq(FlatContent(convIn), HasJoinedText))
        /\ \A i \in 1..Len(convOut) :
              convOut[i].role = "tool" => convOut[i].blocks[1].output # <<>>

\* The content parts of the first n messages of a history, in order, each
\* with the number of its message.
RECURSIVE FlatIndexed(_, _)
FlatIndexed(messages, n) ==
    IF n = 0 THEN <<>>
    ELSE FlatIndexed(messages, n - 1)
         \o [q \in 1..Len(messages[n].content) |->
                [m |-> n, part |-> messages[n].content[q]]]

IndexedResultWithText(e) == IsResultWithText(e.part)

IndexedKept(e) == IsKept(e.part)

\* The tool-call parts of a host message that introduce the call id.
CallsOf(msg, callId) ==
    {q \in 1..Len(msg.content) :
        msg.content[q].kind = "toolcall" /\ msg.content[q].callId = callId}

\* C27: a tool-result part whose call id was introduced by a tool-call part
\* of the host message just before its own gets that tool's name in its tool
\* message, not "unknown".
C27_PriorMessageCallIds ==
    convPc = "normalized" =>
        LET results == SelectSeq(FlatIndexed(convIn, Len(convIn)), IndexedResultWithText)
            msgs == SelectSeq(convOut, IsToolMessage)
        IN  \A k \in 1..Len(results) :
                (results[k].m > 1 /\ k <= Len(msgs)) =>
                    \A q \in CallsOf(convIn[results[k].m - 1], results[k].part.callId) :
                        msgs[k].blocks[1].toolName = convIn[results[k].m - 1].content[q].name

\* The role a host role is to keep.
OriginalRole(hostRole) ==
    CASE hostRole = "User" -> "user"
      [] hostRole = "Assistant" -> "assistant"
      [] OTHER -> "system"

\* C28: the message of the output for a non-blank text part of a host
\* message has the part's value as its string content and the host message's
\* own role (user, assistant or system), or system for an assistant message
\* the role repair rewrote.
C28_TextKeepsRole ==
    convPc = "normalized" =>
        LET kept == SelectSeq(FlatIndexed(convIn, Len(convIn)), IndexedKept)
        IN  /\ Len(convOut) = Len(kept)
            /\ \A k \in 1..Len(kept) :
                  kept[k].part.kind = "text" =>
                      /\ convOut[k].isString
                      /\ convOut[k].text = kept[k].part.value
                      /\ \/ convOut[k].role = OriginalRole(convIn[kept[k].m].role)
                         \/ /\ convIn[kept[k].m].role = "Assistant"
                            /\ convOut[k].role = "system"

\* C29: in the output of convertMessages every message for a tool-call part
\* has role assistant, wherever it stands and whatever the host message's
\* role, and holds exactly one tool-call block with the part's name, call id
\* and input.
C29_ToolCallIsAssistant ==
    convPc = "normalized" =>
        LET kept == SelectSeq(FlatIndexed(convIn, Len(convIn)), IndexedKept)
        IN  /\ Len(convOut) = Len(kept)
            /\ \A k \in 1..Len(kept) :
                  kept[k].part.kind = "toolcall" =>
                      /\ convOut[k].role = "assistant"
                      /\ convOut[k].blocks =
                            <<ToolCallBlock(kept[k].part.name, kept[k].part.callId,
                                            kept[k].part.input)>>

(***************************************************************************)
(* The claim about the parameters of the upstream call, under SpecCall.    *)
(***************************************************************************)
\* C30: the tool choice given to streamText is "auto" for the host's tool
\* mode Auto and "required" for Required and for no other value, an absent
\* tool mode included; the temperature given is the host's temperature
\* whenever there is one, 0 included, and 0.7 only when there is none.
C30_CallParameters ==
    \A t \in Turns :
        issued[t] >= 1 =>
            /\ toolMode = "Auto" => streamCall[t].toolChoice = "auto"
            /\ toolMode = "Required" => streamCall[t].toolChoice = "required"
            /\ streamCall[t].toolChoice = "required" => toolMode = "Required"
            /\ modelTemperature # "undefined" =>
                  streamCall[t].temperature = modelTemperature
            /\ modelTemperature = "undefined" => streamCall[t].temperature = "0.7"

(***************************************************************************)
(* Claims about the abort controller and the end of a turn, under Spec.    *)
(***************************************************************************)
\* C33: in every reachable state the abort controller of a turn is aborted
\* only if the host requested that turn's cancellation, and it was aborted
\* by that request: a turn that completed, relayed an error chunk or failed
\* without a request has its controller not aborted.
C33_AbortedOnlyByCancel ==
    \A t \in Turns :
        /\ aborted[t] => cancelRequested[t] /\ cancelledAt[t].pc # "none"
        /\ (pc[t] = "done" /\ ~cancelRequested[t]) => ~aborted[t]

\* C33's case: a turn relayed an error chunk, then its stream failed, with
\* no cancellation: the turn is over and the controller is not aborted.
C33_Witness ==
    /\ pc["A"] = "done"
    /\ ~cancelRequested["A"]
    /\ ~aborted["A"]
    /\ consumed["A"] # <<>>
    /\ consumed["A"][1].type = "error"
    /\ caught["A"] = <<Thrown("Error", "Error", "boom")>>

(***************************************************************************)
(* Claims about the life of a turn, under SpecLive.                        *)
(***************************************************************************)
\* The terminal states of a turn, told apart by how the try statement was
\* left: the loop ran to the end of the stream, the abort exception was
\* caught, or another exception was caught.
Completed(t) == pc[t] = "done" /\ caught[t] = <<>>

Cancelled(t) == pc[t] = "done" /\ Len(caught[t]) = 1 /\ isAbort(caught[t][1])

Failed(t) == pc[t] = "done" /\ Len(caught[t]) = 1 /\ ~isAbort(caught[t][1])

\* The positions of a turn in order, and the steps between them: the call
\* is issued on the step from the credential await into the stream, and an
\* exception ends the turn from either await.
TurnSteps ==
    {<<"idle", "awaitKey">>, <<"awaitKey", "streaming">>,
     <<"awaitKey", "done">>, <<"streaming", "done">>}

\* Everything a turn owns: its position, its channel, its controller and
\* subscription, its upstream call and what it caught.
TurnState(t) ==
    <<pc[t], aborted[t], subscription[t], apiKey[t], credCalls[t], issued[t],
      consumed[t], reported[t], origin[t], toolResults[t], caught[t], outcome[t],
      streamCall[t]>>

TurnStep(t) ==
    /\ pc'[t] # pc[t] => <<pc[t], pc'[t]>> \in TurnSteps
    /\ issued'[t] # issued[t] =>
          /\ pc[t] = "awaitKey" /\ pc'[t] = "streaming"
          /\ issued'[t] = 1
    /\ pc[t] = "done" => TurnState(t)' = TurnState(t)

OneTerminalState(t) ==
    /\ pc[t] = "done" =>
          /\ outcome[t] = "returned"
          /\ subscription[t] = "disposed"
          /\ \/ Completed(t) /\ ~Cancelled(t) /\ ~Failed(t)
             \/ ~Completed(t) /\ Cancelled(t) /\ ~Failed(t)
             \/ ~Completed(t) /\ ~Cancelled(t) /\ Failed(t)
    /\ pc[t] # "done" => outcome[t] = "none" /\ caught[t] = <<>>
    /\ (Completed(t) \/ Cancelled(t)) => issued[t] = 1
    /\ Cancelled(t) => cancelRequested[t]

\* C31: a turn moves idle -> credential await -> issued and streaming -> one
\* of completed, cancelled, failed; the upstream call is issued once, on the
\* step into the stream; once getApiKey has been called the turn reaches
\* exactly one terminal state, provided getApiKey returns and the event
\* sequence ends or raises; in the terminal state the turn has returned and
\* nothing of it changes any more (no part is reported, no state moves).
C31_TurnReachesOneTerminalState ==
    /\ [](\A t \in Turns : OneTerminalState(t))
    /\ [][\A t \in Turns : TurnStep(t)]_vars
    /\ \A t \in SoloTurns : (pc[t] = "awaitKey") ~> (pc[t] = "done")

\* A cancelled turn: the abort exception ended the stream after a chunk had
\* been relayed, the turn returned with its subscription disposed.
C31_Witness ==
    /\ Cancelled("A")
    /\ ~Completed("A") /\ ~Failed("A")
    /\ issued["A"] = 1
    /\ Len(consumed["A"]) = 1
    /\ outcome["A"] = "returned"
    /\ subscription["A"] = "disposed"

(***************************************************************************)
(* Claims about overlapping calls of the models client, under SpecModels.  *)
(***************************************************************************)
\* The complete lists: what transformToVSCodeModels makes of a whole answer
\* of the gateway.
CompleteLists == {transformToVSCodeModels(data) : data \in Catalogs}

\* The cache is absent, or holds one complete list with a fetch time that
\* has passed.
CacheWhole ==
    \/ modelsCache = NoCache
    \/ /\ modelsCache.present
       /\ modelsCache.models \in CompleteLists
       /\ modelsCache.fetchedAt <= now

\* A step that changes the cache is the completion of one caller's fetch:
\* that call returns the list of its answer, the cache holds that list with
\* the time of the step, and the stored time has not gone back.
CacheWrittenByOneFetch ==
    modelsCache' # modelsCache =>
        \E c \in Callers :
            /\ getModelsCalls[c].pc = "fetching"
            /\ getModelsCalls'[c].pc = "returned"
            /\ getModelsCalls'[c].result \in CompleteLists
            /\ modelsCache' = ModelsCache(now, getModelsCalls'[c].result)
            /\ modelsCache'.fetchedAt >= modelsCache.fetchedAt
            /\ \A d \in Callers \ {c} : getModelsCalls'[d] = getModelsCalls[d]

\* What a call returned is a complete list: the list of its own answer, or
\* the cached list of an earlier answer.
CallReturnsWhole(c) ==
    getModelsCalls[c].pc = "returned" =>
        /\ getModelsCalls[c].result \in CompleteLists
        /\ getModelsCalls[c].fetches = 0 =>
              /\ getModelsCalls[c].cacheAtStart.present
              /\ getModelsCalls[c].result = getModelsCalls[c].cacheAtStart.models
        /\ getModelsCalls[c].fetches = 1 =>
              getModelsCalls[c].cacheAtEnd =
                  ModelsCache(getModelsCalls[c].endedAt, getModelsCalls[c].result)

\* C32: whatever the interleaving of the callers' getModels calls, the cache
\* is at every moment absent or one complete list of one successful fetch
\* with the time that fetch completed, the stored fetch time never
\* decreases, and every call returns a complete list of a successful fetch.
C32_CacheWholeUnderInterleaving ==
    /\ [](CacheWhole /\ \A c \in Callers : CallReturnsWhole(c))
    /\ [][CacheWrittenByOneFetch]_vars

\* Two calls overlapped, each across its own fetch: q's answer came first,
\* p's later with another list; the cache holds p's list and p's time.
C32_Witness ==
    /\ getModelsCalls["p"].pc = "returned"
    /\ getModelsCalls["q"].pc = "returned"
    /\ getModelsCalls["p"].fetches = 1
    /\ getModelsCalls["q"].fetches = 1
    /\ getModelsCalls["p"].startedAt < getModelsCalls["q"].endedAt
    /\ getModelsCalls["q"].startedAt < getModelsCalls["q"].endedAt
    /\ getModelsCalls["q"].endedAt < getModelsCalls["p"].endedAt
    /\ getModelsCalls["p"].result # getModelsCalls["q"].result
    /\ modelsCache = ModelsCache(getModelsCalls["p"].endedAt, getModelsCalls["p"].result)

(***************************************************************************)
(* Claims about the provider's model listing, under SpecInfo.              *)
(***************************************************************************)
\* A step in which a caller's fetch fails: the cache is the same object
\* after it, and provideLanguageModelChatInformation returns the empty list.
FailedFetchLeavesCache(c) ==
    (getModelsCalls[c].pc = "fetching" /\ getModelsCalls'[c].pc = "threw") =>
        /\ modelsCache' = modelsCache
        /\ getModelsCalls'[c].info = "returned"
        /\ getModelsCalls'[c].infoResult = <<>>

\* What provideLanguageModelChatInformation has returned: the empty list
\* after a failed fetch, whatever the cache holds; the empty list and no
\* fetch without a credential; otherwise what getModels returned.
InformationReturned(c) ==
    LET call == getModelsCalls[c] IN
    /\ call.pc = "threw" =>
          /\ call.info = "returned"
          /\ call.infoResult = <<>>
    /\ (call.info = "returned" /\ call.apiKey = "none") =>
          /\ call.infoResult = <<>>
          /\ call.pc = "idle"
          /\ call.fetches = 0
    /\ (call.info = "returned" /\ call.pc = "returned") =>
          call.infoResult = call.result

\* C34: a failed catalog fetch leaves the cache as it was, fetch time and
\* list, a stale entry neither refreshed nor cleared, and
\* provideLanguageModelChatInformation then returns the empty list instead
\* of throwing or serving the stale list; without a credential it returns
\* the empty list and fetches nothing.
C34_FailedFetchKeepsCacheReturnsEmpty ==
    /\ [](\A c \in Callers : InformationReturned(c))
    /\ [][\A c \in Callers : FailedFetchLeavesCache(c)]_vars

\* p's fetch failed over a stale entry, which is still in the cache, and p
\* was given the empty list; q had no credential and was given the empty
\* list without a fetch.
C34_Witness ==
    /\ getModelsCalls["p"].pc = "threw"
    /\ getModelsCalls["p"].info = "returned"
    /\ getModelsCalls["p"].infoResult = <<>>
    /\ getModelsCalls["p"].cacheAtStart.present
    /\ ~isModelsCacheFresh(getModelsCalls["p"].cacheAtStart, getModelsCalls["p"].startedAt)
    /\ modelsCache = getModelsCalls["p"].cacheAtStart
    /\ modelsCache.models # <<>>
    /\ getModelsCalls["q"].info = "returned"
    /\ getModelsCalls["q"].apiKey = "none"
    /\ getModelsCalls["q"].infoResult = <<>>
    /\ getModelsCalls["q"].fetches = 0

(***************************************************************************)
(* Claims about the authentication provider's sessions.                    *)
(***************************************************************************)
\* No operation on the provider is in progress.
AuthQuiescent == \A c \in AuthCallers : authCalls[c].pc = "idle"

\* C35: from an empty store, after any sequence of completed createSession,
\* removeSession and switchActiveSession operations, a non-empty stored list
\* has a stored session's id as the active id, an empty stored list has no
\* active id, and getActiveSession returns a stored session (the active
\* one) whenever the list is non-empty.
C35_ActiveSessionIsStored ==
    /\ AuthQuiescent =>
          /\ secrets # <<>> => activeSession \in Ids(secrets)
          /\ secrets = <<>> => activeSession = NullId
          /\ secrets # <<>> => getActiveSession(secrets, activeSession) = activeSession
    /\ secrets # <<>> => getActiveSession(secrets, activeSession) \in Ids(secrets)

\* Two sessions were created, the second was made active by a switch and
\* then removed: the first one is active again.
C35_Witness ==
    /\ AuthQuiescent
    /\ secrets = <<1>>
    /\ activeSession = 1
    /\ authLog.created = {1, 2}
    /\ authLog.removed = {2}
    /\ authLog.ops = 4

\* C36: whatever the interleaving of createSession and removeSession calls
\* on the secret store, once the calls have ended every session whose
\* createSession completed and that no removeSession removed is in the
\* stored list, every removed session is out of it, and every event fired
\* told of a change the store held when it was fired (an added session
\* stored, a removed session not stored).
C36_NoLostUpdate ==
    /\ AuthQuiescent =>
          /\ \A id \in authLog.created \ authLog.removed : id \in Ids(secrets)
          /\ \A id \in authLog.removed : id \notin Ids(secrets)
    /\ \A i \in 1..Len(sessionEvents) :
          sessionEvents[i].stored = (sessionEvents[i].kind = "added")

====
